---- MODULE Spec2Model ----
(***************************************************************************)
(* Structural HTML diff engine of html-diff-viewer: parse (parse.ts), the  *)
(* tree differ (diff.ts) and the resolver and review state of the          *)
(* WysiwygDiff component (WysiwygDiff.tsx).                                *)
(*                                                                         *)
(* A string is a sequence of characters (one-character strings).           *)
(*                                                                         *)
(* The repository holds two revisions of parse.ts: the one under           *)
(* src/src/wysiwyg (text of a node is its textContent, list items are      *)
(* flat) and a second one (text is the innerHTML, list items carry nested  *)
(* children).  `parser` says which one the build uses.                     *)
(***************************************************************************)
EXTENDS Integers, Sequences, FiniteSets, TLC

VARIABLES
    parser,        \* the view that is mounted: WysiwygDiff with one of the two
                   \* parse.ts ("text", "nested"; "html" under App, where the
                   \* props are strings), "plain" for ReviewableDiff, which
                   \* takes the inputs as plain text, "none" for the views of
                   \* the Diff tab, whose state is not followed
    original,      \* prop original
    modified,      \* prop modified
    decisions,     \* useState<Decisions>({})
    activeIndex,   \* useState<number | null>(null)
    panelMode,     \* useState<PanelMode>("review")
    isEditingPreview, \* WysiwygDiff: useState(false)
    editedHtml,    \* WysiwygDiff: useState<string | null>(null)
    resetPending,  \* the props changed in the last render and the effect on
                   \* [original, modified] has not run yet
    renderError,   \* React threw while rendering the view
    inputMode,     \* App: useState<InputMode>("example")
    selectedExampleId, \* App: useState(examples[0]?.id)
    fileOriginalName,  \* App: useState("")
    fileModifiedName,  \* App: useState("")
    fileOriginalText,  \* App: useState("")
    fileModifiedText,  \* App: useState("")
    aiSourceText,  \* App: useState("")
    aiInstruction, \* App: useState(<the default instruction>)
    aiDraftText,   \* App: useState("")
    aiGenerating,  \* App: useState(false)
    aiError,       \* App: useState<string | null>(null)
    mainView,      \* App: useState<MainView>("review-code")
    diffView,      \* App: useState<DiffView>("unified")
    diffMode,      \* App: useState<DiffMode>("words"), the state named mode
    request,       \* App: the calls of handleGenerateAiDraft that have not
                   \* returned, each with the await it is at
    reading,       \* App: the files being read (FileReader, file.text())
    heap,          \* the objects the renders of WysiwygDiff have created
    treeARef,      \* the address of the parsed original, 0 until the render
                   \* under way has parsed it
    treeBRef,      \* the address of the parsed modified
    treeRef,       \* the address of the tree diffHtmlTrees returned to the
                   \* render under way
    decisionsRef,  \* the address of the decision map the caller holds
    finalHtml      \* what nodeToFinalHtml returned last, with the tree and
                   \* the decision map it was called for

viewVars == <<activeIndex, panelMode>>
previewVars == <<isEditingPreview, editedHtml>>
renderVars == <<resetPending, renderError>>
inputVars == <<inputMode, selectedExampleId, fileOriginalName, fileModifiedName,
               fileOriginalText, fileModifiedText, reading>>
aiVars == <<aiSourceText, aiInstruction, aiDraftText, aiGenerating, aiError, request>>
tabVars == <<mainView, diffView, diffMode>>
appVars == <<inputVars, aiVars, tabVars>>
heapVars == <<heap, treeARef, treeBRef, treeRef, decisionsRef, finalHtml>>
\* what is outside the mounted view
outerVars == <<appVars, heapVars>>

vars == <<parser, original, modified, decisions, viewVars, previewVars, renderVars,
          outerVars>>

(***************************************************************************)
(* Strings                                                                 *)
(***************************************************************************)
\* a string is the sequence of its characters, each a string of one character;
\* a character outside printable ASCII that has no escape is written as one
\* element, "u" and the four hexadecimal digits of its code point
Nbsp == "u00A0"

\* the characters String.prototype.trim strips and \s matches: WhiteSpace and
\* LineTerminator of ECMAScript
WhiteSpace ==
    {"\t", "\n", "u000B", "\f", "\r", " ", Nbsp, "u1680",
     "u2000", "u2001", "u2002", "u2003", "u2004", "u2005", "u2006", "u2007",
     "u2008", "u2009", "u200A", "u2028", "u2029", "u202F", "u205F", "u3000",
     "uFEFF"}

IsSpace(c) == c \in WhiteSpace

\* String.prototype.trim
RECURSIVE Trim(_)
Trim(s) ==
    IF s = <<>> THEN <<>>
    ELSE IF IsSpace(s[1]) THEN Trim(Tail(s))
    ELSE IF IsSpace(s[Len(s)]) THEN Trim(SubSeq(s, 1, Len(s) - 1))
    ELSE s

\* Array.prototype.join("") over a sequence of strings
RECURSIVE Concat(_)
Concat(ss) == IF ss = <<>> THEN <<>> ELSE Head(ss) \o Concat(Tail(ss))

\* xs.filter(Boolean).join(" ") over a sequence of strings
RECURSIVE JoinSpace(_)
JoinSpace(ss) ==
    IF ss = <<>> THEN <<>>
    ELSE IF Head(ss) = <<>> THEN JoinSpace(Tail(ss))
    ELSE LET rest == JoinSpace(Tail(ss))
         IN  IF rest = <<>> THEN Head(ss) ELSE Head(ss) \o <<" ">> \o rest

(***************************************************************************)
(* The DOM handed over by DOMParser: text nodes and elements.              *)
(***************************************************************************)
\* a node has a name (`#text` and `#comment` for the two kinds of character
\* data), its data, its attributes as <<name, value>> pairs, its children,
\* the namespace the parser put it in ("html", or "svg" inside <svg>), and,
\* for a template element, the nodes of HTMLTemplateElement.content, which
\* are not children of the element
TextNode(t) ==
    [tag |-> "#text", text |-> t, attrs |-> <<>>, kids |-> <<>>,
     ns |-> "none", content |-> <<>>]
Comment(t) ==
    [tag |-> "#comment", text |-> t, attrs |-> <<>>, kids |-> <<>>,
     ns |-> "none", content |-> <<>>]
ElemWith(tag, attrs, kids) ==
    [tag |-> tag, text |-> <<>>, attrs |-> attrs, kids |-> kids,
     ns |-> "html", content |-> <<>>]
Elem(tag, kids) == ElemWith(tag, <<>>, kids)
SvgElem(tag, kids) == [Elem(tag, kids) EXCEPT !.ns = "svg"]
Template(nodes) == [Elem("template", <<>>) EXCEPT !.content = nodes]

\* Node.nodeType is not ELEMENT_NODE
IsCharacterData(n) == n.tag \in {"#text", "#comment"}

\* Node.textContent
RECURSIVE TextContent(_)
TextContent(n) ==
    IF n.tag = "#text" THEN n.text
    ELSE Concat([i \in 1..Len(n.kids) |-> TextContent(n.kids[i])])

\* the characters of a tag name
TagChars(tag) == [i \in 1..Len(tag) |-> SubSeq(tag, i, i)]

OpenTag(tag) == <<"<">> \o TagChars(tag) \o <<">">>
CloseTag(tag) == <<"<", "/">> \o TagChars(tag) \o <<">">>

NbspEntity == <<"&", "n", "b", "s", "p", ";">>

\* the text of a text node as innerHTML serialises it
RECURSIVE EscapeText(_)
EscapeText(s) ==
    IF s = <<>> THEN <<>>
    ELSE (CASE Head(s) = "&" -> <<"&", "a", "m", "p", ";">>
            [] Head(s) = "<" -> <<"&", "l", "t", ";">>
            [] Head(s) = ">" -> <<"&", "g", "t", ";">>
            [] Head(s) = Nbsp -> NbspEntity
            [] OTHER -> <<Head(s)>>) \o EscapeText(Tail(s))

\* the value of an attribute as innerHTML serialises it
RECURSIVE EscapeAttr(_)
EscapeAttr(s) ==
    IF s = <<>> THEN <<>>
    ELSE (CASE Head(s) = "&" -> <<"&", "a", "m", "p", ";">>
            [] Head(s) = "\"" -> <<"&", "q", "u", "o", "t", ";">>
            [] Head(s) = "<" -> <<"&", "l", "t", ";">>
            [] Head(s) = ">" -> <<"&", "g", "t", ";">>
            [] Head(s) = Nbsp -> NbspEntity
            [] OTHER -> <<Head(s)>>) \o EscapeAttr(Tail(s))

\* the attributes of a start tag: ` name="value"` for each
RECURSIVE AttrsHtml(_)
AttrsHtml(attrs) ==
    IF attrs = <<>> THEN <<>>
    ELSE <<" ">> \o Head(attrs)[1] \o <<"=", "\"">> \o EscapeAttr(Head(attrs)[2])
         \o <<"\"">> \o AttrsHtml(Tail(attrs))

\* the start tag of an element with its attributes
StartTag(el) == <<"<">> \o TagChars(el.tag) \o AttrsHtml(el.attrs) \o <<">">>

\* the void elements, serialised without children and without an end tag
VoidTags == {"area", "base", "basefont", "bgsound", "br", "col", "embed", "frame",
             "hr", "img", "input", "keygen", "link", "meta", "param", "source",
             "track", "wbr"}

\* the elements whose text is serialised as it is
RawTextTags == {"style", "script", "xmp", "iframe", "noembed", "noframes", "plaintext"}

\* an element the serialiser writes without children and end tag: a void
\* element of the HTML namespace
SerializesAsVoid(el) == el.ns = "html" /\ el.tag \in VoidTags

\* the nodes the serialiser walks: the content of a template element, the
\* children of any other
SerializedNodes(el) ==
    IF el.ns = "html" /\ el.tag = "template" THEN el.content ELSE el.kids

\* Element.innerHTML
RECURSIVE InnerHTML(_)
InnerHTML(el) ==
    LET nodes == SerializedNodes(el)
    IN  Concat([i \in 1..Len(nodes) |->
                  IF nodes[i].tag = "#text"
                  THEN (IF el.ns = "html" /\ el.tag \in RawTextTags THEN nodes[i].text
                        ELSE EscapeText(nodes[i].text))
                  ELSE IF nodes[i].tag = "#comment"
                  THEN <<"<", "!", "-", "-">> \o nodes[i].text \o <<"-", "-", ">">>
                  ELSE IF SerializesAsVoid(nodes[i]) THEN StartTag(nodes[i])
                  ELSE StartTag(nodes[i]) \o InnerHTML(nodes[i])
                       \o CloseTag(nodes[i].tag)])

\* Element.children: the element children, text nodes and comments left out
RECURSIVE ElementsOf(_)
ElementsOf(kids) ==
    IF kids = <<>> THEN <<>>
    ELSE IF IsCharacterData(Head(kids)) THEN ElementsOf(Tail(kids))
    ELSE <<Head(kids)>> \o ElementsOf(Tail(kids))

ElementChildren(el) == ElementsOf(el.kids)

(***************************************************************************)
(* WysiwygNode (types.ts).  Every node carries every field; a field the    *)
(* node kind does not have holds its empty value.                          *)
(***************************************************************************)
NoId == [kind |-> "none", n |-> 0]
\* `block-${n}`, `li-${n}`, `fallback-${n}`
BlockId(n) == [kind |-> "block", n |-> n]
LiId(n) == [kind |-> "li", n |-> n]
FallbackId(n) == [kind |-> "fallback", n |-> n]

Part(value, added, removed) == [value |-> value, added |-> added, removed |-> removed]

RootNode(children) ==
    [type |-> "root", tag |-> "", id |-> NoId, status |-> "",
     inlineParts |-> <<>>, children |-> children]
ListNode(type, children) ==
    [type |-> type, tag |-> "", id |-> NoId, status |-> "",
     inlineParts |-> <<>>, children |-> children]
LiNode(id, status, parts, children) ==
    [type |-> "li", tag |-> "", id |-> id, status |-> status,
     inlineParts |-> parts, children |-> children]
BlockNode(tag, id, status, parts) ==
    [type |-> "block", tag |-> tag, id |-> id, status |-> status,
     inlineParts |-> parts, children |-> <<>>]

\* parseHtmlToTree's null
NullTree ==
    [type |-> "null", tag |-> "", id |-> NoId, status |-> "",
     inlineParts |-> <<>>, children |-> <<>>]

isRootNode(node) == node.type = "root"
isListNode(node) == node.type \in {"ul", "ol"}
isLiNode(node) == node.type = "li"
isBlockNode(node) == node.type = "block"

(***************************************************************************)
(* parse.ts                                                                *)
(***************************************************************************)
isBlockTag(tag) == tag \in {"p", "h1", "h2", "h3", "h4", "h5", "h6"}
isLayoutContainer(tag) == tag \in {"div", "section", "article"}

\* makeBlockNode with the value of blockIndex it reads (the caller adds one)
makeBlockNode(text, tag, blockIndex) ==
    BlockNode(tag, BlockId(blockIndex), "unchanged", <<Part(text, FALSE, FALSE)>>)

\* el.querySelectorAll(":scope > li")
RECURSIVE LiElements(_)
LiElements(els) ==
    IF els = <<>> THEN <<>>
    ELSE IF Head(els).tag = "li" THEN <<Head(els)>> \o LiElements(Tail(els))
    ELSE LiElements(Tail(els))

\* the forEach of parseListNode from item `index` (0-based) on
RECURSIVE ParseLiFrom(_, _)
ParseLiFrom(lis, index) ==
    IF index >= Len(lis) THEN <<>>
    ELSE LET trimmed == Trim(TextContent(lis[index + 1]))
             rest == ParseLiFrom(lis, index + 1)
         IN  IF trimmed = <<>> THEN rest
             ELSE <<LiNode(LiId(index), "unchanged",
                           <<Part(trimmed, FALSE, FALSE)>>, <<>>)>> \o rest

parseListNode(el) ==
    ListNode(el.tag, ParseLiFrom(LiElements(ElementChildren(el)), 0))

\* collectNodes: the loop over elementChildren from position i (1-based) with
\* blockIndex bi; yields the nodes pushed and the value blockIndex ends with
RECURSIVE CollectFrom(_, _, _)

\* a block element with its trimmed text
BlockStep(trimmed, tag, bi) ==
    IF trimmed # <<>>
    THEN [nodes |-> <<makeBlockNode(trimmed, tag, bi)>>, bi |-> bi + 1]
    ELSE [nodes |-> <<>>, bi |-> bi]

\* a layout container with the nodes collected inside it and its trimmed text
ContainerStep(nested, text) ==
    IF Len(nested.nodes) > 0 THEN nested
    ELSE IF text # <<>>
    THEN [nodes |-> <<makeBlockNode(text, "p", nested.bi)>>, bi |-> nested.bi + 1]
    ELSE [nodes |-> <<>>, bi |-> nested.bi]

\* the body of the loop for one child
CollectChild(child, bi) ==
    IF isBlockTag(child.tag) THEN BlockStep(Trim(TextContent(child)), child.tag, bi)
    ELSE IF child.tag \in {"ul", "ol"} THEN
        [nodes |-> <<parseListNode(child)>>, bi |-> bi]
    ELSE IF isLayoutContainer(child.tag) THEN
        ContainerStep(CollectFrom(ElementChildren(child), 1, bi), Trim(TextContent(child)))
    ELSE CollectFrom(ElementChildren(child), 1, bi)

\* what the body pushed for child i, then the loop from child i + 1 on
CollectRest(step, els, i) ==
    LET rest == CollectFrom(els, i + 1, step.bi)
    IN  [nodes |-> step.nodes \o rest.nodes, bi |-> rest.bi]

CollectFrom(els, i, bi) ==
    IF i > Len(els) THEN [nodes |-> <<>>, bi |-> bi]
    ELSE CollectRest(CollectChild(els[i], bi), els, i)

collectNodes(el) == CollectFrom(ElementChildren(el), 1, 0).nodes

\* parseHtmlToTree, from the body DOMParser built for the html string
RootOf(children, fallbackText) ==
    IF Len(children) = 0
    THEN IF fallbackText = <<>> THEN NullTree
         ELSE RootNode(<<BlockNode("p", BlockId(0), "unchanged",
                                   <<Part(fallbackText, FALSE, FALSE)>>)>>)
    ELSE RootNode(children)

parseHtmlToTree(body) == RootOf(collectNodes(body), Trim(TextContent(body)))

(***************************************************************************)
(* parse.ts, the revision that keeps markup and nested lists               *)
(***************************************************************************)
\* escapeHtml
RECURSIVE escapeHtml(_)
escapeHtml(text) ==
    IF text = <<>> THEN <<>>
    ELSE (CASE Head(text) = "&" -> <<"&", "a", "m", "p", ";">>
            [] Head(text) = "<" -> <<"&", "l", "t", ";">>
            [] Head(text) = ">" -> <<"&", "g", "t", ";">>
            [] OTHER -> <<Head(text)>>) \o escapeHtml(Tail(text))

makeBlockNodeNested(html, tag, blockIndex) ==
    BlockNode(tag, BlockId(blockIndex), "unchanged", <<Part(html, FALSE, FALSE)>>)

\* clone.querySelectorAll("ul,ol").forEach((nested) => nested.remove())
RECURSIVE WithoutLists(_)
WithoutLists(kids) ==
    IF kids = <<>> THEN <<>>
    ELSE IF Head(kids).tag \in {"ul", "ol"} THEN WithoutLists(Tail(kids))
    ELSE IF IsCharacterData(Head(kids)) THEN <<Head(kids)>> \o WithoutLists(Tail(kids))
    ELSE <<[Head(kids) EXCEPT !.kids = WithoutLists(Head(kids).kids)]>>
         \o WithoutLists(Tail(kids))

RECURSIVE CollectFromNested(_, _, _)
RECURSIVE ParseLiFromNested(_, _, _)

\* the item of li `index` with its top html and the nodes nested in it, then
\* the forEach from item index + 1 on
LiRest(lis, index, topHtml, nested) ==
    LET rest == ParseLiFromNested(lis, index + 1, nested.bi)
    IN  IF topHtml = <<>> /\ Len(nested.nodes) = 0 THEN rest
        ELSE [nodes |-> <<LiNode(LiId(index), "unchanged",
                                 IF topHtml # <<>> THEN <<Part(topHtml, FALSE, FALSE)>>
                                 ELSE <<>>,
                                 nested.nodes)>> \o rest.nodes,
              bi |-> rest.bi]

\* the forEach of parseListNode from item `index` (0-based) on, with blockIndex bi
ParseLiFromNested(lis, index, bi) ==
    IF index >= Len(lis) THEN [nodes |-> <<>>, bi |-> bi]
    ELSE LiRest(lis, index,
                Trim(InnerHTML(Elem("li", WithoutLists(lis[index + 1].kids)))),
                CollectFromNested(ElementChildren(lis[index + 1]), 1, bi))

\* a block element with its trimmed inner html
BlockStepNested(html, tag, bi) ==
    IF html # <<>>
    THEN [nodes |-> <<makeBlockNodeNested(html, tag, bi)>>, bi |-> bi + 1]
    ELSE [nodes |-> <<>>, bi |-> bi]

\* a list element with its parsed items
ListStepNested(tag, items) ==
    [nodes |-> <<ListNode(tag, items.nodes)>>, bi |-> items.bi]

\* a layout container with the nodes collected inside it and its trimmed html
ContainerStepNested(nested, html) ==
    IF Len(nested.nodes) > 0 THEN nested
    ELSE IF html # <<>>
    THEN [nodes |-> <<makeBlockNodeNested(html, "p", nested.bi)>>,
          bi |-> nested.bi + 1]
    ELSE [nodes |-> <<>>, bi |-> nested.bi]

\* the body of the loop for one child
CollectChildNested(child, bi) ==
    IF isBlockTag(child.tag) THEN BlockStepNested(Trim(InnerHTML(child)), child.tag, bi)
    ELSE IF child.tag \in {"ul", "ol"} THEN
        ListStepNested(child.tag,
                       ParseLiFromNested(LiElements(ElementChildren(child)), 0, bi))
    ELSE IF isLayoutContainer(child.tag) THEN
        ContainerStepNested(CollectFromNested(ElementChildren(child), 1, bi),
                            Trim(InnerHTML(child)))
    ELSE CollectFromNested(ElementChildren(child), 1, bi)

\* what the body pushed for child i, then the loop from child i + 1 on
CollectRestNested(step, els, i) ==
    LET rest == CollectFromNested(els, i + 1, step.bi)
    IN  [nodes |-> step.nodes \o rest.nodes, bi |-> rest.bi]

CollectFromNested(els, i, bi) ==
    IF i > Len(els) THEN [nodes |-> <<>>, bi |-> bi]
    ELSE CollectRestNested(CollectChildNested(els[i], bi), els, i)

parseListNodeNested(el, bi) ==
    ListNode(el.tag, ParseLiFromNested(LiElements(ElementChildren(el)), 0, bi).nodes)

collectNodesNested(el) == CollectFromNested(ElementChildren(el), 1, 0).nodes

RootOfNested(children, fallbackText) ==
    IF Len(children) = 0
    THEN IF fallbackText = <<>> THEN NullTree
         ELSE RootNode(<<BlockNode("p", BlockId(0), "unchanged",
                                   <<Part(escapeHtml(fallbackText), FALSE, FALSE)>>)>>)
    ELSE RootNode(children)

parseHtmlToTreeNested(body) ==
    RootOfNested(collectNodesNested(body), Trim(TextContent(body)))

\* the parse.ts the build imports
Parse(rev, body) ==
    IF rev = "nested" THEN parseHtmlToTreeNested(body) ELSE parseHtmlToTree(body)

(***************************************************************************)
(* diffWords of the npm package `diff` (not part of this repository): the  *)
(* string is split at /([^\S\r\n]+|[()[\]{}'"\r\n]|\b)/, two whitespace     *)
(* tokens compare equal (ignoreWhitespace), the edit script is Myers'      *)
(* O(ND) search, and an unchanged run carries the new string's text.       *)
(***************************************************************************)
\* word characters (\w)
WordChars ==
    {"a", "b", "c", "d", "e", "f", "g", "h", "i", "j", "k", "l", "m", "n", "o", "p",
     "q", "r", "s", "t", "u", "v", "w", "x", "y", "z",
     "A", "B", "C", "D", "E", "F", "G", "H", "I", "J", "K", "L", "M", "N", "O", "P",
     "Q", "R", "S", "T", "U", "V", "W", "X", "Y", "Z",
     "0", "1", "2", "3", "4", "5", "6", "7", "8", "9", "_"}

\* the characters that are a token each
SingleChars == {"(", ")", "[", "]", "{", "}", "'", "\"", "\r", "\n"}

\* a token of its own, whitespace other than a line break, a word character,
\* or any other character
CharClass(c) ==
    IF c \in SingleChars THEN "single"
    ELSE IF IsSpace(c) THEN "space"
    ELSE IF c \in WordChars THEN "word"
    ELSE "other"

\* the length of the token that starts s: one character of SingleChars, or
\* the run of one character class
RunLen(s) ==
    IF CharClass(s[1]) = "single" THEN 1
    ELSE CHOOSE k \in 1..Len(s) :
            /\ \A j \in 1..k : CharClass(s[j]) = CharClass(s[1])
            /\ k = Len(s) \/ CharClass(s[k + 1]) # CharClass(s[1])

RECURSIVE Tokenize(_)
Tokenize(s) ==
    IF s = <<>> THEN <<>>
    ELSE <<SubSeq(s, 1, RunLen(s))>> \o Tokenize(SubSeq(s, RunLen(s) + 1, Len(s)))

IsWhitespaceToken(t) == \A i \in 1..Len(t) : IsSpace(t[i])

TokenEquals(left, right) ==
    left = right \/ (IsWhitespaceToken(left) /\ IsWhitespaceToken(right))

\* a path of the search; NoPath is an undefined entry of bestPath
NoPath == [newPos |-> -2, components |-> <<>>]
Component(count, added, removed) == [count |-> count, added |-> added, removed |-> removed]

pushComponent(components, added, removed) ==
    LET n == Len(components) IN
    IF n > 0 /\ components[n].added = added /\ components[n].removed = removed
    THEN [components EXCEPT ![n] = Component(components[n].count + 1, added, removed)]
    ELSE Append(components, Component(1, added, removed))

\* how many tokens match from newPos + 1 / oldPos + 1 on (positions are 0-based)
RECURSIVE CommonCount(_, _, _, _)
CommonCount(newTokens, oldTokens, newPos, oldPos) ==
    IF /\ newPos + 1 < Len(newTokens)
       /\ oldPos + 1 < Len(oldTokens)
       /\ TokenEquals(newTokens[newPos + 2], oldTokens[oldPos + 2])
    THEN 1 + CommonCount(newTokens, oldTokens, newPos + 1, oldPos + 1)
    ELSE 0

extractCommon(basePath, newTokens, oldTokens, diagonalPath) ==
    LET c == CommonCount(newTokens, oldTokens, basePath.newPos,
                         basePath.newPos - diagonalPath)
    IN  [newPos |-> basePath.newPos + c,
         components |-> IF c > 0 THEN Append(basePath.components, Component(c, FALSE, FALSE))
                        ELSE basePath.components]

\* execEditLength: the loop over the diagonals from diagonalPath on
RECURSIVE ExecDiagonals(_, _, _, _, _)

\* the path a diagonal goes on from: the removal or the insertion
Branched(canAdd, canRemove, addPath, removePath) ==
    IF ~canAdd \/ (canRemove /\ addPath.newPos < removePath.newPos)
    THEN [newPos |-> removePath.newPos,
          components |-> pushComponent(removePath.components, FALSE, TRUE)]
    ELSE [newPos |-> addPath.newPos + 1,
          components |-> pushComponent(addPath.components, TRUE, FALSE)]

\* a diagonal with its path basePath: the end of both strings, or the next
\* diagonal
DiagonalEnd(oldTokens, newTokens, editLength, diagonalPath, cleared, basePath) ==
    IF /\ basePath.newPos + 1 >= Len(newTokens)
       /\ basePath.newPos - diagonalPath + 1 >= Len(oldTokens)
    THEN [done |-> TRUE, components |-> basePath.components, bestPath |-> cleared]
    ELSE ExecDiagonals(oldTokens, newTokens, editLength, diagonalPath + 2,
                       [cleared EXCEPT ![diagonalPath] = basePath])

\* a diagonal with the two paths next to it
DiagonalStep(oldTokens, newTokens, editLength, diagonalPath, bestPath, addPath, removePath) ==
    LET oldPos0 == (IF removePath # NoPath THEN removePath.newPos ELSE 0) - diagonalPath
        cleared == IF addPath # NoPath
                   THEN [bestPath EXCEPT ![diagonalPath - 1] = NoPath]
                   ELSE bestPath
        canAdd == addPath # NoPath /\ addPath.newPos + 1 < Len(newTokens)
        canRemove == removePath # NoPath /\ 0 <= oldPos0 /\ oldPos0 < Len(oldTokens)
    IN  IF ~canAdd /\ ~canRemove
        THEN ExecDiagonals(oldTokens, newTokens, editLength, diagonalPath + 2,
                           [cleared EXCEPT ![diagonalPath] = NoPath])
        ELSE DiagonalEnd(oldTokens, newTokens, editLength, diagonalPath, cleared,
                         extractCommon(Branched(canAdd, canRemove, addPath, removePath),
                                       newTokens, oldTokens, diagonalPath))

ExecDiagonals(oldTokens, newTokens, editLength, diagonalPath, bestPath) ==
    IF diagonalPath > editLength THEN [done |-> FALSE, components |-> <<>>, bestPath |-> bestPath]
    ELSE DiagonalStep(oldTokens, newTokens, editLength, diagonalPath, bestPath,
                      bestPath[diagonalPath - 1], bestPath[diagonalPath + 1])

RECURSIVE ExecEditLength(_, _, _, _)

\* the outcome r of one edit length: the script, or the next edit length
EditLengthEnd(r, oldTokens, newTokens, editLength) ==
    IF r.done THEN r.components
    ELSE ExecEditLength(oldTokens, newTokens, editLength + 1, r.bestPath)

ExecEditLength(oldTokens, newTokens, editLength, bestPath) ==
    EditLengthEnd(ExecDiagonals(oldTokens, newTokens, editLength, -editLength, bestPath),
                  oldTokens, newTokens, editLength)

\* buildValues: the text of every component, removals put before the
\* insertions that precede them
RECURSIVE BuildFrom(_, _, _, _, _, _)
BuildFrom(components, pos, newTokens, oldTokens, newPos, oldPos) ==
    IF pos > Len(components) THEN <<>>
    ELSE
      LET c == components[pos] IN
      IF ~c.removed
      THEN <<Part(Concat(SubSeq(newTokens, newPos + 1, newPos + c.count)), c.added, FALSE)>>
           \o BuildFrom(components, pos + 1, newTokens, oldTokens, newPos + c.count,
                        IF c.added THEN oldPos ELSE oldPos + c.count)
      ELSE <<Part(Concat(SubSeq(oldTokens, oldPos + 1, oldPos + c.count)), FALSE, TRUE)>>
           \o BuildFrom(components, pos + 1, newTokens, oldTokens, newPos, oldPos + c.count)

RECURSIVE RemovesFirst(_)
RemovesFirst(parts) ==
    IF Len(parts) < 2 THEN parts
    ELSE IF parts[1].added /\ parts[2].removed
         THEN <<parts[2], parts[1]>> \o RemovesFirst(SubSeq(parts, 3, Len(parts)))
         ELSE <<parts[1]>> \o RemovesFirst(Tail(parts))

\* a last change that is only whitespace is merged into the part before it
MergeIgnoredTail(parts) ==
    LET n == Len(parts) IN
    IF /\ n > 1
       /\ parts[n].added \/ parts[n].removed
       /\ IsWhitespaceToken(parts[n].value)
    THEN Append(SubSeq(parts, 1, n - 2),
                [parts[n - 1] EXCEPT !.value = parts[n - 1].value \o parts[n].value])
    ELSE parts

buildValues(components, newTokens, oldTokens) ==
    MergeIgnoredTail(RemovesFirst(BuildFrom(components, 1, newTokens, oldTokens, 0, 0)))

\* the search from the path `first` of the common start
DiffFrom(first, oldTokens, newTokens) ==
    LET maxEdit == Len(oldTokens) + Len(newTokens)
        bestPath == [d \in (-(maxEdit + 2))..(maxEdit + 2) |->
                        IF d = 0 THEN first ELSE NoPath]
    IN  IF first.newPos + 1 >= Len(newTokens) /\ first.newPos + 1 >= Len(oldTokens)
        THEN <<Part(Concat(newTokens), FALSE, FALSE)>>
        ELSE buildValues(ExecEditLength(oldTokens, newTokens, 1, bestPath),
                         newTokens, oldTokens)

DiffTokens(oldTokens, newTokens) ==
    DiffFrom(extractCommon([newPos |-> -1, components |-> <<>>], newTokens, oldTokens, 0),
             oldTokens, newTokens)

diffWords(oldStr, newStr) == DiffTokens(Tokenize(oldStr), Tokenize(newStr))

(***************************************************************************)
(* diff.ts                                                                 *)
(***************************************************************************)
\* node.inlineParts.map((p) => p.value)
PartValues(parts) == [i \in 1..Len(parts) |-> parts[i].value]

RECURSIVE getNodeText(_)
getNodeText(node) ==
    IF isLiNode(node) \/ isBlockNode(node) THEN Concat(PartValues(node.inlineParts))
    ELSE IF isListNode(node) \/ isRootNode(node)
    THEN JoinSpace([i \in 1..Len(node.children) |-> getNodeText(node.children[i])])
    ELSE <<>>

\* parts.some((p) => p.added || p.removed)
SomeChanged(parts) == \E i \in 1..Len(parts) : parts[i].added \/ parts[i].removed

\* a status that does not look at the parts
StatusOfAlwaysUnchanged(parts) == "unchanged"

StatusOf(parts) == IF SomeChanged(parts) THEN "changed" ELSE "unchanged"

\* the li and the block a word diff gives: status from the parts, no children
DiffedLi(id, parts) == LiNode(id, StatusOf(parts), parts, <<>>)
DiffedBlock(tag, id, parts) == BlockNode(tag, id, StatusOf(parts), parts)

\* the single part markSubtree and diffList give a node present on one side
MarkedPart(text, mode) == Part(text, mode = "added", mode # "added")

RECURSIVE markSubtree(_, _, _)
markSubtree(node, mode, index) ==
    IF isListNode(node)
    THEN ListNode(node.type,
                  [i \in 1..Len(node.children) |-> markSubtree(node.children[i], mode, index)])
    ELSE IF isLiNode(node)
    THEN LiNode(node.id, mode, <<MarkedPart(getNodeText(node), mode)>>, <<>>)
    ELSE IF isBlockNode(node)
    THEN BlockNode(node.tag, node.id, mode, <<MarkedPart(getNodeText(node), mode)>>)
    ELSE node

\* diffList's loop body for index i (0-based): the nodes it pushes
DiffListAt(a, b, i) ==
    LET hasA == i < Len(a.children)
        hasB == i < Len(b.children)
        aNode == a.children[i + 1]
        bNode == b.children[i + 1]
        id == LiId(i)
    IN  IF ~hasA /\ hasB /\ isLiNode(bNode)
        THEN <<LiNode(id, "added", <<Part(getNodeText(bNode), TRUE, FALSE)>>, <<>>)>>
        ELSE IF hasA /\ ~hasB /\ isLiNode(aNode)
        THEN <<LiNode(id, "removed", <<Part(getNodeText(aNode), FALSE, TRUE)>>, <<>>)>>
        ELSE IF hasA /\ hasB /\ isLiNode(aNode) /\ isLiNode(bNode)
        THEN <<DiffedLi(id, diffWords(getNodeText(aNode), getNodeText(bNode)))>>
        ELSE <<>>

Max(x, y) == IF x >= y THEN x ELSE y

diffList(a, b) ==
    IF ~isListNode(a) \/ ~isListNode(b) THEN b
    ELSE LET maxLen == Max(Len(a.children), Len(b.children))
         IN  ListNode(a.type, Concat([k \in 1..maxLen |-> DiffListAt(a, b, k - 1)]))

diffBlock(a, b, index) ==
    DiffedBlock(a.tag, BlockId(index), diffWords(getNodeText(a), getNodeText(b)))

\* a fallback that gives a paragraph whenever b is not a block
diffFallbackBlockParagraph(a, b, index) ==
    DiffedBlock(IF isBlockNode(b) THEN b.tag ELSE "p",
                FallbackId(index),
                diffWords(getNodeText(a), getNodeText(b)))

diffFallbackBlock(a, b, index) ==
    DiffedBlock(IF isBlockNode(b) THEN b.tag
                ELSE IF isBlockNode(a) THEN a.tag
                ELSE "p",
                FallbackId(index),
                diffWords(getNodeText(a), getNodeText(b)))

\* diffRoot's loop body for index i (0-based): the node it pushes
DiffRootAt(a, b, i) ==
    LET hasA == i < Len(a.children)
        hasB == i < Len(b.children)
        aNode == a.children[i + 1]
        bNode == b.children[i + 1]
    IN  IF ~hasA /\ hasB THEN markSubtree(bNode, "added", i)
        ELSE IF hasA /\ ~hasB THEN markSubtree(aNode, "removed", i)
        ELSE IF isListNode(aNode) /\ isListNode(bNode) THEN diffList(aNode, bNode)
        ELSE IF isBlockNode(aNode) /\ isBlockNode(bNode) /\ aNode.tag = bNode.tag
        THEN diffBlock(aNode, bNode, i)
        ELSE diffFallbackBlock(aNode, bNode, i)

\* a differ that stops at the end of the shorter root
diffRootShortest(a, b) ==
    IF ~isRootNode(a) \/ ~isRootNode(b) THEN (IF isRootNode(b) THEN b ELSE a)
    ELSE RootNode([k \in 1..(IF Len(a.children) <= Len(b.children)
                              THEN Len(a.children) ELSE Len(b.children)) |->
                     DiffRootAt(a, b, k - 1)])

diffRoot(a, b) ==
    IF ~isRootNode(a) \/ ~isRootNode(b) THEN (IF isRootNode(b) THEN b ELSE a)
    ELSE LET maxLen == Max(Len(a.children), Len(b.children))
         IN  RootNode([k \in 1..maxLen |-> DiffRootAt(a, b, k - 1)])

\* if (!treeA || !treeB) return null; return diffRoot(treeA, treeB)
DiffParsed(treeA, treeB) ==
    IF treeA = NullTree \/ treeB = NullTree THEN NullTree
    ELSE diffRoot(treeA, treeB)

diffHtmlTrees(rev, originalBody, modifiedBody) ==
    DiffParsed(Parse(rev, originalBody), Parse(rev, modifiedBody))

(***************************************************************************)
(* WysiwygDiff.tsx: the resolver                                           *)
(***************************************************************************)
\* decisions[id]; a missing key reads as undefined
DecisionOf(dec, id) == IF id \in DOMAIN dec THEN dec[id] ELSE "undefined"

\* a resolver that leaves out the wrong parts
buildHtmlFromPartsSwapped(parts, mode) ==
    Concat([i \in 1..Len(parts) |->
              IF mode = "original"
              THEN (IF parts[i].removed THEN <<>> ELSE parts[i].value)
              ELSE (IF parts[i].added THEN <<>> ELSE parts[i].value)])

buildHtmlFromParts(parts, mode) ==
    Concat([i \in 1..Len(parts) |->
              IF mode = "original"
              THEN (IF parts[i].added THEN <<>> ELSE parts[i].value)
              ELSE (IF parts[i].removed THEN <<>> ELSE parts[i].value)])

\* a resolver that applies every edit not rejected
ModeOfUnlessRejected(dec, id) ==
    IF DecisionOf(dec, id) = "reject" THEN "original" ELSE "modified"

ModeOf(dec, id) == IF DecisionOf(dec, id) = "accept" THEN "modified" ELSE "original"

RECURSIVE nodeToFinalHtml(_, _)
nodeToFinalHtml(node, dec) ==
    LET inner == Concat([i \in 1..Len(node.children) |->
                            nodeToFinalHtml(node.children[i], dec)])
    IN  IF node.type = "root" THEN inner
        ELSE IF node.type = "block"
        THEN OpenTag(node.tag)
             \o buildHtmlFromParts(node.inlineParts, ModeOf(dec, node.id))
             \o CloseTag(node.tag)
        ELSE IF node.type \in {"ul", "ol"}
        THEN OpenTag(node.type) \o inner \o CloseTag(node.type)
        ELSE IF node.type = "li"
        THEN OpenTag("li")
             \o (IF Len(node.inlineParts) > 0
                 THEN buildHtmlFromParts(node.inlineParts, ModeOf(dec, node.id))
                 ELSE <<>>)
             \o inner
             \o CloseTag("li")
        ELSE <<>>

(***************************************************************************)
(* WysiwygDiff.tsx: the review state                                       *)
(***************************************************************************)
nodeHasInlineDiff(node) ==
    IF node.type # "li" /\ node.type # "block" THEN FALSE
    ELSE SomeChanged(node.inlineParts)

\* interactiveIds: the ids visit() pushes, in visiting order
RECURSIVE interactiveIds(_)
interactiveIds(node) ==
    (IF /\ node.type \in {"li", "block"}
        /\ node.status # "unchanged" \/ nodeHasInlineDiff(node)
     THEN <<node.id>> ELSE <<>>)
    \o Concat([i \in 1..Len(node.children) |-> interactiveIds(node.children[i])])

Range(seq) == {seq[i] : i \in 1..Len(seq)}

EmptyDecisions == [id \in {} |-> "undefined"]

\* setDecisions((prev) => ({ ...prev, [id]: value }))
setDecision(dec, id, value) ==
    [k \in DOMAIN dec \cup {id} |-> IF k = id THEN value ELSE dec[k]]

(***************************************************************************)
(* The inputs: the bodies DOMParser builds.  The texts are made of the     *)
(* words a and b with spaces, tabs and line feeds around and between them; *)
(* the inputs of the parser also hold inline markup, comments and foreign  *)
(* elements.                                                               *)
(***************************************************************************)
MaxTop == 2

Txt(s) == TextNode(s)
P(s) == Elem("p", <<Txt(s)>>)
Li(s) == Elem("li", <<Txt(s)>>)

TopPool ==
    { P(<<" ", "a", "\t", " ", "b">>),
      Elem("ol", <<Li(<<"b">>)>>),
      Elem("ul", <<Li(<<"a">>), Li(<<"b">>)>>),
      Elem("ul", <<Li(<<"a">>)>>) }

\* the inputs the build with the nested-list revision of parse.ts is run on
NestedPool ==
    { P(<<"a", " ", "b">>),
      Elem("p", <<Txt(<<"a", " ">>), Elem("b", <<Txt(<<"b">>)>>)>>),
      Elem("ul", <<Elem("li", <<Txt(<<"a">>), Elem("ul", <<Li(<<"b">>)>>)>>)>>),
      Elem("ul", <<Elem("li", <<Txt(<<"a">>), Elem("ul", <<Li(<<"a">>)>>)>>)>>),
      Elem("ul", <<Li(<<"a">>), Elem("li", <<Elem("ul", <<Li(<<"b">>)>>)>>)>>) }

RECURSIVE SeqsUpTo(_, _)
SeqsUpTo(S, n) ==
    IF n = 0 THEN {<<>>}
    ELSE LET shorter == SeqsUpTo(S, n - 1)
         IN  shorter \cup {Append(q, x) : q \in shorter, x \in S}

Docs == {Elem("body", kids) : kids \in SeqsUpTo(TopPool, MaxTop)}
NestedDocs == {Elem("body", kids) : kids \in SeqsUpTo(NestedPool, MaxTop)}

\* the inputs parse is run on, under either revision: text beside and inside
\* elements, inline markup with an attribute and a line break, line feeds and
\* tabs, a comment, headings, empty elements, containers with and without
\* blocks, and lists whose items hold lists and blocks
ParsePool ==
    { Txt(<<"a">>),
      Elem("p", <<Txt(<<"a", " ">>),
                  ElemWith("b", <<<<<<"i", "d">>, <<"x">>>>>>, <<Txt(<<"b">>)>>),
                  Elem("br", <<>>)>>),
      P(<<"\n", "a", " ", "\t", "b">>),
      Elem("h2", <<Txt(<<"a">>)>>),
      Elem("div", <<Elem("p", <<>>)>>),
      Elem("div", <<Comment(<<"b">>), Txt(<<"a">>), Elem("b", <<Txt(<<"b">>)>>),
                    SvgElem("svg", <<SvgElem("input", <<>>)>>),
                    Template(<<Txt(<<"b">>)>>)>>),
      Elem("span", <<P(<<"b">>), Elem("ol", <<Li(<<"a">>)>>)>>),
      Elem("section", <<Txt(<<"a">>), P(<<"b">>), Elem("ol", <<Li(<<"a">>)>>)>>),
      Elem("ul", <<Li(<<" ">>)>>),
      Elem("ul", <<Elem("li", <<Txt(<<"a">>), Elem("ul", <<Li(<<"b">>)>>)>>),
                   Elem("li", <<P(<<"b">>)>>)>>) }

\* DOMParser never leaves two text nodes side by side
NoAdjacentText(kids) ==
    \A i \in 1..(Len(kids) - 1) : kids[i].tag # "#text" \/ kids[i + 1].tag # "#text"

ParseDocs ==
    {Elem("body", kids) : kids \in {q \in SeqsUpTo(ParsePool, MaxTop) : NoAdjacentText(q)}}

\* the second input of a diff of parsed inputs: without a node, without
\* content, a heading, two paragraphs, and a list of two items
ParseExamples ==
    { Elem("body", <<>>),
      Elem("body", <<Elem("div", <<Elem("p", <<>>)>>)>>),
      Elem("body", <<Elem("h2", <<Txt(<<"a">>)>>)>>),
      Elem("body", <<P(<<"\n", "a", " ", "\t", "b">>), P(<<"\n", "a", " ", "\t", "b">>)>>),
      Elem("body", <<Elem("ul", <<Elem("li", <<Txt(<<"a">>), Elem("ul", <<Li(<<"b">>)>>)>>),
                                  Elem("li", <<P(<<"b">>)>>)>>)>>) }

\* the props the view on the inputs of the parser is given anew: without a
\* node, and a heading
ParseChanges ==
    { Elem("body", <<>>),
      Elem("body", <<Elem("h2", <<Txt(<<"a">>)>>)>>) }

\* the inputs of the views under navigation
NavPool ==
    { P(<<"a", " ", "b">>),
      Elem("ul", <<Li(<<"a">>), Li(<<"b">>)>>) }

NavDocs == {Elem("body", kids) : kids \in SeqsUpTo(NavPool, MaxTop)}

\* the props that come both new in one render: the examples
Examples == {Elem("body", <<Elem("ul", <<Li(<<"a">>), Li(<<"b">>)>>)>>),
             Elem("body", <<Elem("ul", <<Li(<<"a">>)>>)>>),
             Elem("body", <<P(<<"a", " ", "b">>)>>)}
NestedExamples == {Elem("body", <<P(<<"a", " ", "b">>)>>),
                   Elem("body", <<Elem("ul", <<Li(<<"a">>),
                                               Elem("li", <<Elem("ul", <<Li(<<"b">>)>>)>>)>>)>>)}
TextExamples == {<<"a">>, <<"b">>, <<"a", " ", "a">>, <<"b", " ", "b">>}
\* the examples and the empty document, which has no tree
RenderExamples == Examples \cup {Elem("body", <<>>)}
NavTexts == TextExamples \cup {<<>>, <<"a", " ", "b">>, <<"b", " ", "a">>}
NavInputs(rev) == IF rev = "plain" THEN NavTexts ELSE NavDocs

\* the documents WysiwygDiff is given under the revision of src/src/wysiwyg
ViewDocs == Docs \cup NavDocs \cup RenderExamples

\* examples.ts
examples ==
    <<
       [id |-> "safety-equipment",
        label |-> "Safety equipment list",
        original |->
          <<"\n", "<", "p", ">", "S", "a", "f", "e", "t", "y", " ", "e", "q", "u", "i", "p", "m",
            "e", "n", "t", " ", "r", "e", "q", "u", "i", "r", "e", "d", ":", "<", "/", "p", ">",
            "\n", "<", "u", "l", ">", "\n", " ", " ", "<", "l", "i", ">", "H", "a", "r", "d",
            " ", "h", "a", "t", " ", "(", "C", "l", "a", "s", "s", " ", "G", ")", "<", "/", "l",
            "i", ">", "\n", " ", " ", "<", "l", "i", ">", "S", "a", "f", "e", "t", "y", " ", "g",
            "o", "g", "g", "l", "e", "s", "<", "/", "l", "i", ">", "\n", " ", " ", "<", "l", "i",
            ">", "S", "t", "e", "e", "l", "-", "t", "o", "e", "d", " ", "b", "o", "o", "t", "s",
            "<", "/", "l", "i", ">", "\n", "<", "/", "u", "l", ">", "\n">>,
        modified |->
          <<"\n", "<", "p", ">", "S", "a", "f", "e", "t", "y", " ", "e", "q", "u", "i", "p", "m",
            "e", "n", "t", " ", "r", "e", "q", "u", "i", "r", "e", "d", ":", "<", "/", "p", ">",
            "\n", "<", "u", "l", ">", "\n", " ", " ", "<", "l", "i", ">", "H", "a", "r", "d",
            " ", "h", "a", "t", " ", "(", "C", "l", "a", "s", "s", " ", "E", " ", "o", "r", " ",
            "G", ")", "<", "/", "l", "i", ">", "\n", " ", " ", "<", "l", "i", ">", "S", "a", "f",
            "e", "t", "y", " ", "g", "o", "g", "g", "l", "e", "s", " ", "(", "A", "n", "t", "i",
            "-", "f", "o", "g", ")", "<", "/", "l", "i", ">", "\n", "<", "/", "u", "l", ">",
            "\n">>],
       [id |-> "fire-exit",
        label |-> "Fire exit procedure",
        original |->
          <<"\n", "<", "h", "2", ">", "F", "i", "r", "e", " ", "e", "x", "i", "t", " ", "p", "r",
            "o", "c", "e", "d", "u", "r", "e", "<", "/", "h", "2", ">", "\n", "<", "o", "l", ">",
            "\n", " ", " ", "<", "l", "i", ">", "S", "t", "a", "y", " ", "c", "a", "l", "m", " ",
            "a", "n", "d", " ", "d", "o", " ", "n", "o", "t", " ", "r", "u", "n", ".", "<", "/",
            "l", "i", ">", "\n", " ", " ", "<", "l", "i", ">", "U", "s", "e", " ", "t", "h", "e",
            " ", "n", "e", "a", "r", "e", "s", "t", " ", "e", "x", "i", "t", ".", "<", "/", "l",
            "i", ">", "\n", " ", " ", "<", "l", "i", ">", "D", "o", " ", "n", "o", "t", " ", "u",
            "s", "e", " ", "t", "h", "e", " ", "e", "l", "e", "v", "a", "t", "o", "r", "s", ".",
            "<", "/", "l", "i", ">", "\n", "<", "/", "o", "l", ">", "\n">>,
        modified |->
          <<"\n", "<", "h", "2", ">", "F", "i", "r", "e", " ", "e", "x", "i", "t", " ", "p", "r",
            "o", "c", "e", "d", "u", "r", "e", "<", "/", "h", "2", ">", "\n", "<", "o", "l", ">",
            "\n", " ", " ", "<", "l", "i", ">", "S", "t", "a", "y", " ", "c", "a", "l", "m", " ",
            "a", "n", "d", " ", "w", "a", "l", "k", " ", "q", "u", "i", "c", "k", "l", "y", ".",
            "<", "/", "l", "i", ">", "\n", " ", " ", "<", "l", "i", ">", "U", "s", "e", " ", "t",
            "h", "e", " ", "n", "e", "a", "r", "e", "s", "t", " ", "m", "a", "r", "k", "e", "d",
            " ", "e", "x", "i", "t", ".", "<", "/", "l", "i", ">", "\n", " ", " ", "<", "l", "i",
            ">", "D", "o", " ", "n", "o", "t", " ", "u", "s", "e", " ", "t", "h", "e", " ", "e",
            "l", "e", "v", "a", "t", "o", "r", "s", ".", "<", "/", "l", "i", ">", "\n", " ", " ",
            "<", "l", "i", ">", "G", "a", "t", "h", "e", "r", " ", "a", "t", " ", "t", "h", "e",
            " ", "a", "s", "s", "e", "m", "b", "l", "y", " ", "p", "o", "i", "n", "t", ".", "<",
            "/", "l", "i", ">", "\n", "<", "/", "o", "l", ">", "\n">>],
       [id |-> "concrete-mix",
        label |-> "Concrete mix specification",
        original |->
          <<"\n", "<", "p", ">", "C", "o", "n", "c", "r", "e", "t", "e", " ", "m", "i", "x", " ",
            "s", "p", "e", "c", "i", "f", "i", "c", "a", "t", "i", "o", "n", ":", "<", "/", "p",
            ">", "\n", "<", "u", "l", ">", "\n", " ", " ", "<", "l", "i", ">", "C", "e", "m",
            "e", "n", "t", ":", " ", "C", "2", "5", "/", "3", "0", "<", "/", "l", "i", ">", "\n",
            " ", " ", "<", "l", "i", ">", "A", "g", "g", "r", "e", "g", "a", "t", "e", " ", "s",
            "i", "z", "e", ":", " ", "1", "0", "m", "m", "<", "/", "l", "i", ">", "\n", " ", " ",
            "<", "l", "i", ">", "S", "l", "u", "m", "p", ":", " ", "8", "0", "m", "m", "<", "/",
            "l", "i", ">", "\n", "<", "/", "u", "l", ">", "\n">>,
        modified |->
          <<"\n", "<", "p", ">", "C", "o", "n", "c", "r", "e", "t", "e", " ", "m", "i", "x", " ",
            "s", "p", "e", "c", "i", "f", "i", "c", "a", "t", "i", "o", "n", ":", "<", "/", "p",
            ">", "\n", "<", "u", "l", ">", "\n", " ", " ", "<", "l", "i", ">", "C", "e", "m",
            "e", "n", "t", ":", " ", "C", "3", "0", "/", "3", "7", "<", "/", "l", "i", ">", "\n",
            " ", " ", "<", "l", "i", ">", "A", "g", "g", "r", "e", "g", "a", "t", "e", " ", "s",
            "i", "z", "e", ":", " ", "1", "0", "u2013", "1", "4", "m", "m", "<", "/", "l", "i",
            ">", "\n", " ", " ", "<", "l", "i", ">", "S", "l", "u", "m", "p", ":", " ", "8", "0",
            "m", "m", " ", "u00B1", " ", "2", "0", "m", "m", "<", "/", "l", "i", ">", "\n", " ",
            " ", "<", "l", "i", ">", "A", "d", "m", "i", "x", "t", "u", "r", "e", ":", " ", "P",
            "l", "a", "s", "t", "i", "c", "i", "z", "e", "r", " ", "(", "a", "s", " ", "p", "e",
            "r", " ", "s", "u", "p", "p", "l", "i", "e", "r", " ", "r", "e", "c", "o", "m", "m",
            "e", "n", "d", "a", "t", "i", "o", "n", "s", ")", "<", "/", "l", "i", ">", "\n", "<",
            "/", "u", "l", ">", "\n">>],
       [id |-> "long-procedure",
        label |-> "Long procedure with few edits",
        original |->
          <<"\n", "<", "h", "2", ">", "I", "n", "s", "p", "e", "c", "t", "i", "o", "n", " ", "p",
            "r", "o", "c", "e", "d", "u", "r", "e", "<", "/", "h", "2", ">", "\n", "<", "o", "l",
            ">", "\n", " ", " ", "<", "l", "i", ">", "C", "h", "e", "c", "k", " ", "P", "P", "E",
            " ", "i", "s", " ", "w", "o", "r", "n", " ", "c", "o", "r", "r", "e", "c", "t", "l",
            "y", ".", "<", "/", "l", "i", ">", "\n", " ", " ", "<", "l", "i", ">", "V", "e", "r",
            "i", "f", "y", " ", "a", "c", "c", "e", "s", "s", " ", "r", "o", "u", "t", "e", "s",
            " ", "a", "r", "e", " ", "c", "l", "e", "a", "r", ".", "<", "/", "l", "i", ">", "\n",
            " ", " ", "<", "l", "i", ">", "I", "n", "s", "p", "e", "c", "t", " ", "s", "c", "a",
            "f", "f", "o", "l", "d", "i", "n", "g", " ", "c", "o", "n", "n", "e", "c", "t", "i",
            "o", "n", "s", ".", "<", "/", "l", "i", ">", "\n", " ", " ", "<", "l", "i", ">", "C",
            "o", "n", "f", "i", "r", "m", " ", "g", "u", "a", "r", "d", "r", "a", "i", "l", "s",
            " ", "a", "r", "e", " ", "i", "n", " ", "p", "l", "a", "c", "e", ".", "<", "/", "l",
            "i", ">", "\n", " ", " ", "<", "l", "i", ">", "C", "h", "e", "c", "k", " ", "s", "i",
            "g", "n", "a", "g", "e", " ", "i", "s", " ", "v", "i", "s", "i", "b", "l", "e", ".",
            "<", "/", "l", "i", ">", "\n", " ", " ", "<", "l", "i", ">", "V", "e", "r", "i", "f",
            "y", " ", "f", "i", "r", "e", " ", "e", "x", "t", "i", "n", "g", "u", "i", "s", "h",
            "e", "r", "s", " ", "a", "r", "e", " ", "a", "c", "c", "e", "s", "s", "i", "b", "l",
            "e", ".", "<", "/", "l", "i", ">", "\n", " ", " ", "<", "l", "i", ">", "C", "h", "e",
            "c", "k", " ", "l", "i", "g", "h", "t", "i", "n", "g", " ", "l", "e", "v", "e", "l",
            "s", " ", "i", "n", " ", "a", "l", "l", " ", "a", "r", "e", "a", "s", ".", "<", "/",
            "l", "i", ">", "\n", " ", " ", "<", "l", "i", ">", "C", "o", "n", "f", "i", "r", "m",
            " ", "e", "m", "e", "r", "g", "e", "n", "c", "y", " ", "e", "x", "i", "t", "s", " ",
            "a", "r", "e", " ", "u", "n", "l", "o", "c", "k", "e", "d", ".", "<", "/", "l", "i",
            ">", "\n", " ", " ", "<", "l", "i", ">", "R", "e", "c", "o", "r", "d", " ", "o", "b",
            "s", "e", "r", "v", "a", "t", "i", "o", "n", "s", " ", "i", "n", " ", "t", "h", "e",
            " ", "l", "o", "g", "b", "o", "o", "k", ".", "<", "/", "l", "i", ">", "\n", "<", "/",
            "o", "l", ">", "\n">>,
        modified |->
          <<"\n", "<", "h", "2", ">", "I", "n", "s", "p", "e", "c", "t", "i", "o", "n", " ", "p",
            "r", "o", "c", "e", "d", "u", "r", "e", "<", "/", "h", "2", ">", "\n", "<", "o", "l",
            ">", "\n", " ", " ", "<", "l", "i", ">", "C", "h", "e", "c", "k", " ", "P", "P", "E",
            " ", "i", "s", " ", "w", "o", "r", "n", " ", "c", "o", "r", "r", "e", "c", "t", "l",
            "y", ".", "<", "/", "l", "i", ">", "\n", " ", " ", "<", "l", "i", ">", "V", "e", "r",
            "i", "f", "y", " ", "a", "c", "c", "e", "s", "s", " ", "r", "o", "u", "t", "e", "s",
            " ", "a", "r", "e", " ", "c", "l", "e", "a", "r", ".", "<", "/", "l", "i", ">", "\n",
            " ", " ", "<", "l", "i", ">", "I", "n", "s", "p", "e", "c", "t", " ", "s", "c", "a",
            "f", "f", "o", "l", "d", "i", "n", "g", " ", "c", "o", "n", "n", "e", "c", "t", "i",
            "o", "n", "s", ".", "<", "/", "l", "i", ">", "\n", " ", " ", "<", "l", "i", ">", "C",
            "o", "n", "f", "i", "r", "m", " ", "g", "u", "a", "r", "d", "r", "a", "i", "l", "s",
            " ", "a", "r", "e", " ", "i", "n", " ", "p", "l", "a", "c", "e", ".", "<", "/", "l",
            "i", ">", "\n", " ", " ", "<", "l", "i", ">", "C", "h", "e", "c", "k", " ", "s", "i",
            "g", "n", "a", "g", "e", " ", "i", "s", " ", "v", "i", "s", "i", "b", "l", "e", ".",
            "<", "/", "l", "i", ">", "\n", " ", " ", "<", "l", "i", ">", "V", "e", "r", "i", "f",
            "y", " ", "f", "i", "r", "e", " ", "e", "x", "t", "i", "n", "g", "u", "i", "s", "h",
            "e", "r", "s", " ", "a", "r", "e", " ", "a", "c", "c", "e", "s", "s", "i", "b", "l",
            "e", ".", "<", "/", "l", "i", ">", "\n", " ", " ", "<", "l", "i", ">", "C", "h", "e",
            "c", "k", " ", "l", "i", "g", "h", "t", "i", "n", "g", " ", "l", "e", "v", "e", "l",
            "s", " ", "i", "n", " ", "a", "l", "l", " ", "a", "r", "e", "a", "s", " ", "(", "l",
            "u", "x", " ", "m", "e", "t", "e", "r", " ", "i", "f", " ", "a", "v", "a", "i", "l",
            "a", "b", "l", "e", ")", ".", "<", "/", "l", "i", ">", "\n", " ", " ", "<", "l", "i",
            ">", "C", "o", "n", "f", "i", "r", "m", " ", "e", "m", "e", "r", "g", "e", "n", "c",
            "y", " ", "e", "x", "i", "t", "s", " ", "a", "r", "e", " ", "u", "n", "l", "o", "c",
            "k", "e", "d", ".", "<", "/", "l", "i", ">", "\n", " ", " ", "<", "l", "i", ">", "R",
            "e", "c", "o", "r", "d", " ", "o", "b", "s", "e", "r", "v", "a", "t", "i", "o", "n",
            "s", " ", "i", "n", " ", "t", "h", "e", " ", "d", "i", "g", "i", "t", "a", "l", " ",
            "l", "o", "g", "b", "o", "o", "k", ".", "<", "/", "l", "i", ">", "\n", "<", "/", "o",
            "l", ">", "\n">>],
       [id |-> "nested-structure",
        label |-> "Nested HTML structures",
        original |->
          <<"\n", " ", " ", " ", " ", "<", "d", "i", "v", ">", "\n", " ", " ", " ", " ", " ",
            " ", "<", "h", "2", ">", "S", "a", "f", "e", "t", "y", "<", "/", "h", "2", ">", "\n",
            " ", " ", " ", " ", " ", " ", "<", "p", ">", "<", "s", "t", "r", "o", "n", "g", ">",
            "W", "o", "r", "k", "e", "r", "s", "<", "/", "s", "t", "r", "o", "n", "g", ">", " ",
            "m", "u", "s", "t", " ", "w", "e", "a", "r", " ", "P", "P", "E", ".", "<", "/", "p",
            ">", "\n", " ", " ", " ", " ", " ", " ", "<", "u", "l", ">", "\n", " ", " ", " ",
            " ", " ", " ", " ", " ", "<", "l", "i", ">", "H", "a", "r", "d", " ", "h", "a", "t",
            "<", "/", "l", "i", ">", "\n", " ", " ", " ", " ", " ", " ", " ", " ", "<", "l", "i",
            ">", "G", "o", "g", "g", "l", "e", "s", "<", "/", "l", "i", ">", "\n", " ", " ", " ",
            " ", " ", " ", "<", "/", "u", "l", ">", "\n", " ", " ", " ", " ", "<", "/", "d", "i",
            "v", ">", "\n", " ", " ">>,
        modified |->
          <<"\n", " ", " ", " ", " ", "<", "d", "i", "v", ">", "\n", " ", " ", " ", " ", " ",
            " ", "<", "h", "2", ">", "S", "a", "f", "e", "t", "y", " ", "r", "e", "q", "u", "i",
            "r", "e", "m", "e", "n", "t", "s", "<", "/", "h", "2", ">", "\n", " ", " ", " ", " ",
            " ", " ", "<", "p", ">", "<", "s", "t", "r", "o", "n", "g", ">", "A", "l", "l", " ",
            "w", "o", "r", "k", "e", "r", "s", "<", "/", "s", "t", "r", "o", "n", "g", ">", " ",
            "m", "u", "s", "t", " ", "w", "e", "a", "r", " ", "P", "P", "E", " ", "a", "t", " ",
            "a", "l", "l", " ", "t", "i", "m", "e", "s", ".", "<", "/", "p", ">", "\n", " ", " ",
            " ", " ", " ", " ", "<", "u", "l", ">", "\n", " ", " ", " ", " ", " ", " ", " ", " ",
            "<", "l", "i", ">", "H", "a", "r", "d", " ", "h", "a", "t", " ", "(", "C", "l", "a",
            "s", "s", " ", "E", " ", "o", "r", " ", "G", ")", "<", "/", "l", "i", ">", "\n", " ",
            " ", " ", " ", " ", " ", " ", " ", "<", "l", "i", ">", "G", "o", "g", "g", "l", "e",
            "s", " ", "(", "A", "n", "t", "i", "-", "f", "o", "g", ")", "<", "/", "l", "i", ">",
            "\n", " ", " ", " ", " ", " ", " ", "<", "/", "u", "l", ">", "\n", " ", " ", " ",
            " ", "<", "/", "d", "i", "v", ">", "\n", " ", " ">>],
       [id |-> "p-to-list",
        label |-> "Paragraph vs list (hybrid diff test)",
        original |->
          <<"\n", " ", " ", " ", " ", "<", "p", ">", "S", "a", "f", "e", "t", "y", " ", "e", "q",
            "u", "i", "p", "m", "e", "n", "t", " ", "r", "e", "q", "u", "i", "r", "e", "d", ":",
            " ", "H", "a", "r", "d", " ", "h", "a", "t", ",", " ", "g", "o", "g", "g", "l", "e",
            "s", ",", " ", "b", "o", "o", "t", "s", ".", "<", "/", "p", ">", "\n", " ", " ">>,
        modified |->
          <<"\n", " ", " ", " ", " ", "<", "u", "l", ">", "\n", " ", " ", " ", " ", " ", " ",
            "<", "l", "i", ">", "H", "a", "r", "d", " ", "h", "a", "t", "<", "/", "l", "i", ">",
            "\n", " ", " ", " ", " ", " ", " ", "<", "l", "i", ">", "G", "o", "g", "g", "l", "e",
            "s", "<", "/", "l", "i", ">", "\n", " ", " ", " ", " ", " ", " ", "<", "l", "i", ">",
            "B", "o", "o", "t", "s", "<", "/", "l", "i", ">", "\n", " ", " ", " ", " ", "<", "/",
            "u", "l", ">", "\n", " ", " ">>]
    >>

\* the documents a user types, uploads or is sent, as the strings they are
HtmlP == <<"<", "p", ">", "a", " ", "b", "<", "/", "p", ">">>
HtmlOl == <<"<", "o", "l", ">", "<", "l", "i", ">", "b", "<", "/", "l", "i", ">",
            "<", "/", "o", "l", ">">>

\* the file the user picks
Files == {[name |-> <<"a", ".", "h", "t", "m", "l">>, text |-> HtmlOl]}

\* what is typed or uploaded as the source, and data.modifiedHtml of a reply
AiTexts == {<<>>, <<" ">>, HtmlOl}
DraftTexts == {<<>>, HtmlP}

\* the strings App can hand to a view, and the pairs of them
AppStrings ==
    {<<>>} \cup {examples[k].original : k \in 1..Len(examples)}
           \cup {examples[k].modified : k \in 1..Len(examples)}
           \cup {file.text : file \in Files} \cup AiTexts \cup DraftTexts
AppProps ==
    {<<examples[k].original, examples[k].modified>> : k \in 1..Len(examples)}
    \cup {<<o, m>> : o \in {<<>>} \cup {file.text : file \in Files},
                     m \in {<<>>} \cup {file.text : file \in Files}}
    \cup {<<source, IF draft # <<>> THEN draft ELSE source>> :
             source \in AiTexts, draft \in DraftTexts}

\* the white space of HTML, and the elements of the strings App hands over
HtmlSpace == {"\t", "\n", "\f", "\r", " "}
HtmlTags == {"p", "ul", "ol", "li", "h2", "div", "strong"}

\* the first position from i on where s has the character c, Len(s) + 1
\* when it has none
IndexFrom(s, c, i) ==
    IF \E k \in i..Len(s) : s[k] = c
    THEN CHOOSE k \in i..Len(s) : s[k] = c /\ \A j \in i..(k - 1) : s[j] # c
    ELSE Len(s) + 1

\* the nodes the tree builder appends to the open element from position i
\* on, up to the end tag of that element: a start tag opens an element whose
\* children follow, and the characters between two tags are one text node.
\* The strings hold start tags without attributes, each with its end tag.
RECURSIVE NodesFrom(_, _, _)
NodesFrom(s, i, kids) ==
    IF i > Len(s) THEN [kids |-> kids, next |-> i]
    ELSE IF s[i] = "<"
    THEN LET close == IndexFrom(s, ">", i)
         IN  IF s[i + 1] = "/" THEN [kids |-> kids, next |-> close + 1]
             ELSE LET tag == CHOOSE t \in HtmlTags : OpenTag(t) = SubSeq(s, i, close)
                      inner == NodesFrom(s, close + 1, <<>>)
                  IN  NodesFrom(s, inner.next, Append(kids, Elem(tag, inner.kids)))
    ELSE LET open == IndexFrom(s, "<", i)
         IN  NodesFrom(s, open, Append(kids, TextNode(SubSeq(s, i, open - 1))))

\* new DOMParser().parseFromString(html, "text/html").body: the white space
\* before the first tag or character of the body is dropped
parseFromString(html) ==
    LET first == IF \E k \in 1..Len(html) : html[k] \notin HtmlSpace
                 THEN CHOOSE k \in 1..Len(html) :
                          html[k] \notin HtmlSpace /\ \A j \in 1..(k - 1) : html[j] \in HtmlSpace
                 ELSE Len(html) + 1
    IN  Elem("body", NodesFrom(html, first, <<>>).kids)

\* the body DOMParser builds from the strings App can hand to WysiwygDiff,
\* tabulated once
DomOf == [s \in AppStrings |-> parseFromString(s)] @@ <<>>

\* the bodies of the strings of App
AppDocs == {DomOf[s] : s \in AppStrings}

\* WysiwygDiff is modelled on the bodies DOMParser builds from its props;
\* under App ("html") the props are the strings themselves
ParserOf(view) == IF view = "html" THEN "text" ELSE view
BodyOf(view, prop) == IF view = "html" THEN DomOf[prop] ELSE prop

\* diffHtmlTrees over the inputs (a pure function of the build's parser and
\* the two strings), tabulated once
DiffOf ==
    [q \in {<<rev, o, m>> : rev \in {"text"}, o \in ViewDocs, m \in ViewDocs}
          \cup {<<"text", DomOf[p[1]], DomOf[p[2]]>> : p \in AppProps}
          \cup {<<rev, o, m>> : rev \in {"nested"}, o \in NestedDocs, m \in NestedDocs}
          \cup {<<rev, o, m>> : rev \in {"text", "nested"}, o \in ParseDocs, m \in ParseExamples}
       |-> diffHtmlTrees(q[1], q[2], q[3])] @@ <<>>

\* const tree = diffHtmlTrees(original, modified)
tree == DiffOf[<<ParserOf(parser), BodyOf(parser, original), BodyOf(parser, modified)>>]

\* parseHtmlToTree over the inputs, tabulated once
ParseOf ==
    [q \in {<<rev, d>> : rev \in {"text"}, d \in ViewDocs \cup AppDocs}
          \cup {<<rev, d>> : rev \in {"nested"}, d \in NestedDocs}
          \cup {<<rev, d>> : rev \in {"text", "nested"}, d \in ParseDocs}
       |-> Parse(q[1], q[2])] @@ <<>>

\* the two parsed trees diffHtmlTrees works on
treeA == ParseOf[<<ParserOf(parser), BodyOf(parser, original)>>]
treeB == ParseOf[<<ParserOf(parser), BodyOf(parser, modified)>>]

\* const baseFinalHtml = nodeToFinalHtml(tree)
baseFinalHtml == nodeToFinalHtml(tree, decisions)

\* const mergedPreviewHtml = editedHtml ?? baseFinalHtml
mergedPreviewHtml == IF editedHtml = <<"null">> THEN baseFinalHtml ELSE editedHtml

\* what a render gives: the early return for a missing tree, else the review
\* with the merged html its preview shows and its download saves; nothing
\* once React has thrown and unmounted the view
NoSupportedHtml == <<"N", "o", " ", "s", "u", "p", "p", "o", "r", "t", "e", "d", " ",
                     "H", "T", "M", "L", ".">>
rendered ==
    IF renderError THEN [view |-> "unmounted", html |-> <<>>]
    ELSE IF tree = NullTree THEN [view |-> "empty", html |-> NoSupportedHtml]
    ELSE [view |-> "review", html |-> mergedPreviewHtml]

(***************************************************************************)
(* reviewDiffModel.ts and the ReviewableDiff component: the review of two  *)
(* plain texts.  The component has the props original and modified and the *)
(* state decisions, like WysiwygDiff; here the two props are strings, a    *)
(* decision is true (accept) or false (reject), a missing key is           *)
(* undefined, and parser is "plain".                                       *)
(***************************************************************************)
\* `change-${n}`
ChangeId(n) == [kind |-> "change", n |-> n]

TextBlock(text) ==
    [kind |-> "text", text |-> text, id |-> NoId, type |-> "", original |-> <<>>,
     modified |-> <<>>]
ChangeBlock(id, type, originalText, modifiedText) ==
    [kind |-> "change", text |-> <<>>, id |-> id, type |-> type,
     original |-> originalText, modified |-> modifiedText]

\* buildDiffBlocks: the loop from part i (1-based) on, with changeCounter
RECURSIVE BlocksFrom(_, _, _)
BlocksFrom(parts, i, changeCounter) ==
    IF i > Len(parts) THEN <<>>
    ELSE
      LET part == parts[i] IN
      IF ~part.added /\ ~part.removed
      THEN (IF part.value # <<>> THEN <<TextBlock(part.value)>> ELSE <<>>)
           \o BlocksFrom(parts, i + 1, changeCounter)
      ELSE IF part.removed
      THEN IF i + 1 <= Len(parts) /\ parts[i + 1].added
           THEN <<ChangeBlock(ChangeId(changeCounter), "replace",
                              part.value, parts[i + 1].value)>>
                \o BlocksFrom(parts, i + 2, changeCounter + 1)
           ELSE <<ChangeBlock(ChangeId(changeCounter), "remove", part.value, <<>>)>>
                \o BlocksFrom(parts, i + 1, changeCounter + 1)
      ELSE <<ChangeBlock(ChangeId(changeCounter), "add", <<>>, part.value)>>
           \o BlocksFrom(parts, i + 1, changeCounter + 1)

\* blocks without the text between the changes
buildDiffBlocksChangesOnly(originalText, modifiedText) ==
    SelectSeq(BlocksFrom(diffWords(originalText, modifiedText), 1, 0),
              LAMBDA block : block.kind = "change")

buildDiffBlocks(originalText, modifiedText) ==
    BlocksFrom(diffWords(originalText, modifiedText), 1, 0)

\* a merge that applies every change that was not rejected
RECURSIVE MergedFromUnlessRejected(_, _, _, _)
MergedFromUnlessRejected(blocks, dec, i, result) ==
    IF i > Len(blocks) THEN result
    ELSE
      LET block == blocks[i] IN
      IF block.kind = "text"
      THEN MergedFromUnlessRejected(blocks, dec, i + 1, result \o block.text)
      ELSE IF block.id \in DOMAIN dec /\ ~dec[block.id]
      THEN MergedFromUnlessRejected(blocks, dec, i + 1,
               IF block.type = "add" THEN result ELSE result \o block.original)
      ELSE MergedFromUnlessRejected(blocks, dec, i + 1,
               IF block.type \in {"add", "replace"} THEN result \o block.modified
               ELSE result)

buildMergedTextUnlessRejected(blocks, dec) == MergedFromUnlessRejected(blocks, dec, 1, <<>>)

\* buildMergedText: the loop from block i (1-based) on, with the result so far
RECURSIVE MergedFrom(_, _, _, _)
MergedFrom(blocks, dec, i, result) ==
    IF i > Len(blocks) THEN result
    ELSE
      LET block == blocks[i] IN
      IF block.kind = "text"
      THEN MergedFrom(blocks, dec, i + 1, result \o block.text)
      ELSE IF block.id \notin DOMAIN dec
      THEN MergedFrom(blocks, dec, i + 1,
               IF block.type = "add" THEN result ELSE result \o block.original)
      ELSE IF dec[block.id]
      THEN MergedFrom(blocks, dec, i + 1,
               IF block.type \in {"add", "replace"} THEN result \o block.modified
               ELSE result)
      ELSE MergedFrom(blocks, dec, i + 1,
               IF block.type = "add" THEN result ELSE result \o block.original)

buildMergedText(blocks, dec) == MergedFrom(blocks, dec, 1, <<>>)

\* the texts the review is given: up to MaxChars characters
MaxChars == 3

RECURSIVE StringsUpTo(_, _)
StringsUpTo(chars, n) ==
    IF n = 0 THEN {<<>>}
    ELSE LET shorter == StringsUpTo(chars, n - 1)
         IN  shorter \cup {Append(str, c) : str \in shorter, c \in chars}

Texts == StringsUpTo({"a", "b", " "}, MaxChars)

\* buildDiffBlocks over the inputs, tabulated once
BlocksOf ==
    [q \in Texts \X Texts |-> buildDiffBlocks(q[1], q[2])] @@ <<>>

\* const blocks = useMemo(() => buildDiffBlocks(original, modified), ...)
blocks == BlocksOf[<<original, modified>>]

\* const changes = blocks.filter(kind === "change").map(b => b.change)
changes == SelectSeq(blocks, LAMBDA block : block.kind = "change")

\* const mergedText = useMemo(() => buildMergedText(blocks, decisions), ...)
mergedText == buildMergedText(blocks, decisions)

(***************************************************************************)
(* The component                                                           *)
(***************************************************************************)
\* activeIndex === null
NullIndex == -1

\* aiError === null
NullError == <<>>

\* editedHtml === null; no string has an element of more than one character
NullHtml == <<"null">>

\* the hooks a render of WysiwygDiff calls: those above the early return for
\* a missing tree, and those below it
HooksAboveReturn ==
    <<"useState", "useState", "useState", "useState", "useState", "useState",
      "useState", "useRef">>
HooksBelowReturn ==
    <<"useEffect", "useMemo", "useMemo", "useMemo", "useRef", "useMemo",
      "useEffect", "useEffect", "useEffect", "useMemo">>

\* the hooks a render of ReviewableDiff calls
ReviewableDiffHooks ==
    <<"useMemo", "useState", "useState", "useState", "useState", "useState",
      "useEffect", "useMemo", "useMemo", "useRef", "useMemo", "useMemo",
      "useEffect", "useEffect", "useEffect">>

\* the hooks a render of TextDiff and of SideBySideDiff calls
DiffViewHooks == <<"useState", "useEffect">>

\* the hooks the render of the view calls for the props o and m
HooksCalled(rev, o, m) ==
    IF rev = "plain" THEN ReviewableDiffHooks
    ELSE IF rev = "none" THEN DiffViewHooks
    ELSE IF ParseOf[<<ParserOf(rev), BodyOf(rev, o)>>] = NullTree
            \/ ParseOf[<<ParserOf(rev), BodyOf(rev, m)>>] = NullTree
    THEN HooksAboveReturn
    ELSE HooksAboveReturn \o HooksBelowReturn

\* interactiveIds.length (changes.length in ReviewableDiff) for the props o, m
InteractiveCount(rev, o, m) ==
    IF rev = "plain"
    THEN Len(SelectSeq(BlocksOf[<<o, m>>], LAMBDA block : block.kind = "change"))
    ELSE Len(interactiveIds(DiffOf[<<ParserOf(rev), BodyOf(rev, o), BodyOf(rev, m)>>]))

\* the views on the inputs of the diff and of the parser are given documents
\* that put at most MaxReview nodes under review, and the view on the inputs
\* of the diff a document and itself, or two documents of at most MaxElements
\* top-level elements together
MaxReview == 2
MaxElements == 3
Reviewable(rev, o, m) == InteractiveCount(rev, o, m) <= MaxReview
Sized(o, m) == o = m \/ Len(o.kids) + Len(m.kids) <= MaxElements

\* activeIndex after the two effects that follow a render with new props,
\* whose updates React applies together: setActiveIndex(null) of the reset,
\* then the clamp, which still sees the index of that render
IndexAfterReset(rev, o, m) ==
    IF activeIndex = NullIndex THEN NullIndex
    ELSE LET n == InteractiveCount(rev, o, m)
         IN  IF n > 0 /\ activeIndex >= n THEN n - 1 ELSE NullIndex

\* the state of a view that has just been mounted
Mounted ==
    /\ decisions = EmptyDecisions
    /\ activeIndex = NullIndex
    /\ panelMode = "review"
    /\ isEditingPreview = FALSE
    /\ editedHtml = NullHtml
    /\ resetPending = FALSE
    /\ renderError = FALSE

\* the default of aiInstruction, kept whole
DefaultInstruction ==
    <<"Describe how the AI should improve the HTML (tone, length, structure, disclaimers, etc.).">>

\* the state of App when it is mounted
AppIdle ==
    /\ inputMode = "example"
    /\ selectedExampleId = examples[1].id
    /\ fileOriginalName = <<>>
    /\ fileModifiedName = <<>>
    /\ fileOriginalText = <<>>
    /\ fileModifiedText = <<>>
    /\ reading = <<>>
    /\ aiSourceText = <<>>
    /\ aiInstruction = DefaultInstruction
    /\ aiDraftText = <<>>
    /\ aiGenerating = FALSE
    /\ aiError = NullError
    /\ request = <<>>
    /\ mainView = "review-code"
    /\ diffView = "unified"
    /\ diffMode = "words"

\* an object of the heap; every object carries every field
BlankObject ==
    [kind |-> "", type |-> "", tag |-> "", id |-> NoId, status |-> "",
     inlineParts |-> 0, children |-> 0, items |-> <<>>, strings |-> <<>>,
     value |-> <<>>, added |-> FALSE, removed |-> FALSE,
     entries |-> EmptyDecisions]

\* a WysiwygNode; inlineParts and children are addresses of arrays
NodeObject(type, tag, id, status, partsRef, childrenRef) ==
    [BlankObject EXCEPT !.kind = "node", !.type = type, !.tag = tag, !.id = id,
                        !.status = status, !.inlineParts = partsRef,
                        !.children = childrenRef]
\* an InlinePart
PartObject(value, added, removed) ==
    [BlankObject EXCEPT !.kind = "part", !.value = value, !.added = added,
                        !.removed = removed]
\* an array of objects, by their addresses
ArrayObject(refs) == [BlankObject EXCEPT !.kind = "array", !.items = refs]
\* an array of strings
StringsObject(strs) == [BlankObject EXCEPT !.kind = "strings", !.strings = strs]
\* the decision map: Record<string, Decision>
MapObject(dec) == [BlankObject EXCEPT !.kind = "map", !.entries = dec]

\* the resolver has not run: no dependencies, no html
NoFinalHtml == [deps |-> <<0, 0>>, html |-> <<>>]

\* no call of the differ has been followed object by object
HeapEmpty ==
    /\ heap = <<>>
    /\ treeARef = 0
    /\ treeBRef = 0
    /\ treeRef = 0
    /\ decisionsRef = 0
    /\ finalHtml = NoFinalHtml

\* the events whose renders are followed object by object
MaxEvents == 2

\* the render under way has run to its end: the objects are not followed, or
\* the tree and the final html of this render exist
RenderDone ==
    heap = <<>> \/ (treeRef # 0 /\ finalHtml.deps = <<treeRef, decisionsRef>>)

\* the root nodes created so far: every render creates three, the two parsed
\* trees and the tree of the diff
RootCount ==
    Cardinality({x \in 1..Len(heap) : heap[x].kind = "node" /\ heap[x].type = "root"})

\* the view takes events: it is mounted, no effect is waiting and no render
\* is under way
Settled ==
    /\ ~renderError
    /\ ~resetPending
    /\ RenderDone
    /\ RootCount <= 3 * MaxEvents

\* the render a state update asks for, on the objects: its locals do not
\* exist yet (line 21 parses and diffs again in every render) and the
\* decisions are a new object when the update built a new map
NewRender(newMap) ==
    /\ heap' = IF newMap THEN Append(heap, MapObject(decisions')) ELSE heap
    /\ decisionsRef' = IF newMap THEN Len(heap) + 1 ELSE decisionsRef
    /\ treeARef' = 0
    /\ treeBRef' = 0
    /\ treeRef' = 0
    /\ UNCHANGED finalHtml

\* what a handler leaves to React: no render when every state it set has the
\* value it had (a new map is never the map it replaces)
Rerender(newMap) ==
    IF \/ heap = <<>>
       \/ /\ ~newMap
          /\ <<activeIndex, panelMode, isEditingPreview, editedHtml>>'
               = <<activeIndex, panelMode, isEditingPreview, editedHtml>>
    THEN UNCHANGED heapVars
    ELSE NewRender(newMap)

Init ==
    /\ parser = "text"
    /\ original \in Docs
    /\ modified \in Docs
    /\ Sized(original, modified)
    /\ Reviewable(parser, original, modified)
    /\ Mounted
    /\ AppIdle
    /\ HeapEmpty

InitNested ==
    /\ parser = "nested"
    /\ original \in NestedDocs
    /\ modified \in NestedDocs
    /\ Sized(original, modified)
    /\ Reviewable(parser, original, modified)
    /\ Mounted
    /\ AppIdle
    /\ HeapEmpty

\* the render with the props o and m, which keeps the state of the render
\* before it.  React throws when the render does not call the hooks the one
\* before it called, and nothing in the application catches it: the view is
\* unmounted.  A render of WysiwygDiff that returns early for a missing tree
\* registers no effect; any other leaves the effects on the new props to run.
RenderProps(o, m) ==
    /\ original' = o
    /\ modified' = m
    /\ IF HooksCalled(parser, o, m) # HooksCalled(parser, original, modified)
       THEN renderError' = TRUE /\ UNCHANGED resetPending
       ELSE /\ resetPending' = (HooksCalled(parser, o, m) # HooksAboveReturn)
            /\ UNCHANGED renderError
    /\ UNCHANGED <<parser, decisions, viewVars, previewVars>>

\* the parent renders the view with new props
Render(o, m) ==
    /\ Settled
    /\ RenderProps(o, m)
    /\ UNCHANGED appVars
    /\ IF heap = <<>> THEN UNCHANGED heapVars ELSE NewRender(FALSE)

\* a new original, a new modified, and both in one render (App.tsx gives both
\* when another example or another input mode is selected).  The effects
\* compare the prop strings; WysiwygDiff is modelled on the bodies DOMParser
\* builds from them, and d may be the body the view has, built from another
\* string.  The props of ReviewableDiff are the texts themselves.
SetOriginal(d) == (parser = "plain" => d # original) /\ Render(d, modified)

SetModified(d) == (parser = "plain" => d # modified) /\ Render(original, d)

SetProps(o, m) ==
    /\ parser = "plain" => (o # original /\ m # modified)
    /\ Render(o, m)

\* the effects of the render with new props, run after it is committed: the
\* reset on [original, modified] and the clamp of activeIndex, then the
\* render they ask for
ResetEffect ==
    /\ resetPending
    /\ ~renderError
    /\ RenderDone
    /\ decisions' = EmptyDecisions
    /\ activeIndex' = IndexAfterReset(parser, original, modified)
    /\ panelMode' = "review"
    /\ isEditingPreview' = FALSE
    /\ editedHtml' = NullHtml
    /\ resetPending' = FALSE
    /\ UNCHANGED <<parser, original, modified, renderError, appVars>>
    /\ Rerender(TRUE)

\* the buttons of a node, of the bulk actions and of the reset are rendered
\* in review mode only, the last three disabled when nothing is interactive
\* an Accept button that turns an accepted node into a rejected one
onAcceptClickFlip(id) ==
    /\ Settled
    /\ panelMode = "review"
    /\ tree # NullTree
    /\ id \in Range(interactiveIds(tree))
    /\ decisions' = setDecision(decisions, id,
                       IF DecisionOf(decisions, id) = "accept" THEN "reject" ELSE "accept")
    /\ UNCHANGED <<parser, original, modified, viewVars, previewVars, renderVars, appVars>>
    /\ Rerender(TRUE)

onAcceptClick(id) ==
    /\ Settled
    /\ panelMode = "review"
    /\ tree # NullTree
    /\ id \in Range(interactiveIds(tree))
    /\ decisions' = setDecision(decisions, id,
                       IF DecisionOf(decisions, id) = "accept" THEN "undefined" ELSE "accept")
    /\ UNCHANGED <<parser, original, modified, viewVars, previewVars, renderVars, appVars>>
    /\ Rerender(TRUE)

onRejectClick(id) ==
    /\ Settled
    /\ panelMode = "review"
    /\ tree # NullTree
    /\ id \in Range(interactiveIds(tree))
    /\ decisions' = setDecision(decisions, id,
                       IF DecisionOf(decisions, id) = "reject" THEN "undefined" ELSE "reject")
    /\ UNCHANGED <<parser, original, modified, viewVars, previewVars, renderVars, appVars>>
    /\ Rerender(TRUE)

\* a bulk action that leaves the decisions already taken
handleBulkUndecided(mode) ==
    /\ Settled
    /\ panelMode = "review"
    /\ tree # NullTree
    /\ Len(interactiveIds(tree)) > 0
    /\ decisions' = [id \in Range(interactiveIds(tree)) |->
                        IF DecisionOf(decisions, id) = "undefined" THEN mode
                        ELSE decisions[id]]
    /\ UNCHANGED <<parser, original, modified, viewVars, previewVars, renderVars, appVars>>
    /\ Rerender(TRUE)

handleBulk(mode) ==
    /\ Settled
    /\ panelMode = "review"
    /\ tree # NullTree
    /\ Len(interactiveIds(tree)) > 0
    /\ decisions' = [id \in Range(interactiveIds(tree)) |-> mode]
    /\ UNCHANGED <<parser, original, modified, viewVars, previewVars, renderVars, appVars>>
    /\ Rerender(TRUE)

handleReset ==
    /\ Settled
    /\ panelMode = "review"
    /\ tree # NullTree
    /\ Len(interactiveIds(tree)) > 0
    /\ decisions' = EmptyDecisions
    /\ editedHtml' = NullHtml
    /\ UNCHANGED <<parser, original, modified, viewVars, isEditingPreview, renderVars,
                   appVars>>
    /\ Rerender(TRUE)

\* the top-level nodes of an original that is diffed against an example
MaxParsed == 1

\* the component mounted with either revision of parse.ts: an original of at
\* most MaxParsed top-level nodes beside every example, and every original
\* beside the document without a node
InitParse ==
    /\ parser \in {"text", "nested"}
    /\ original \in ParseDocs
    /\ modified \in ParseExamples
    /\ Len(original.kids) <= MaxParsed \/ modified = Elem("body", <<>>)
    /\ Reviewable(parser, original, modified)
    /\ Mounted
    /\ AppIdle
    /\ HeapEmpty

\* the ReviewableDiff component
InitReview ==
    /\ parser = "plain"
    /\ original \in Texts
    /\ modified \in Texts
    /\ Mounted
    /\ AppIdle
    /\ HeapEmpty

handleDecision(id, value) ==
    /\ Settled
    /\ decisions' = setDecision(decisions, id, value)
    /\ UNCHANGED <<parser, original, modified, viewVars, previewVars, renderVars, outerVars>>

\* the two buttons are disabled without a change
handleBulkChanges(value) ==
    /\ Settled
    /\ Len(changes) > 0
    /\ decisions' = [id \in DOMAIN decisions \cup {changes[k].id : k \in 1..Len(changes)} |->
                        IF \E k \in 1..Len(changes) : changes[k].id = id
                        THEN value ELSE decisions[id]]
    /\ UNCHANGED <<parser, original, modified, viewVars, previewVars, renderVars, outerVars>>

\* the button is disabled without a change and without a decision
handleResetAll ==
    /\ Settled
    /\ Len(changes) > 0 \/ DOMAIN decisions # {}
    /\ decisions' = EmptyDecisions
    /\ UNCHANGED <<parser, original, modified, viewVars, previewVars, renderVars, outerVars>>

(***************************************************************************)
(* The review state of the two views: the counters, the active node, the   *)
(* panel mode and the keyboard                                             *)
(***************************************************************************)
\* the ids under review in review order: interactiveIds of WysiwygDiff,
\* changes.map(c => c.id) of ReviewableDiff
reviewIds ==
    IF parser = "plain" THEN [k \in 1..Len(changes) |-> changes[k].id]
    ELSE IF tree = NullTree THEN <<>>
    ELSE interactiveIds(tree)

\* the number of entries of idSeq whose decision is value
CountOf(idSeq, dec, value) ==
    Cardinality({i \in 1..Len(idSeq) : idSeq[i] \in DOMAIN dec /\ dec[idSeq[i]] = value})

Counters(total, accepted, rejected) ==
    [total |-> total, accepted |-> accepted, rejected |-> rejected,
     pending |-> total - accepted - rejected]

\* const stats = useMemo(...), with d === "accept" / "reject" in WysiwygDiff
\* and d === true / false in ReviewableDiff
statsOf(rev, idSeq, dec) ==
    IF rev = "plain"
    THEN Counters(Len(idSeq), CountOf(idSeq, dec, TRUE), CountOf(idSeq, dec, FALSE))
    ELSE Counters(Len(idSeq), CountOf(idSeq, dec, "accept"), CountOf(idSeq, dec, "reject"))

stats == statsOf(parser, reviewIds, decisions)

\* a banner that does not ask for a change to exist
reviewCompleteWithoutTotal == stats.pending = 0

\* the 'Review complete' banner: reviewComplete of ReviewableDiff, and the
\* condition of the banner of WysiwygDiff apart from panelMode === "review"
reviewComplete == stats.total > 0 /\ stats.pending = 0

\* the banner is on the page
bannerShown ==
    IF parser = "plain" THEN reviewComplete
    ELSE tree # NullTree /\ panelMode = "review" /\ reviewComplete

\* decisions[id] === undefined
Undecided(rev, dec, id) ==
    IF rev = "plain" THEN id \notin DOMAIN dec
    ELSE DecisionOf(dec, id) = "undefined"

\* no index was set by the loop
NoJump == -2

\* jumpToNextPending: the loop from offset on
RECURSIVE JumpFrom(_, _, _, _, _)
JumpFrom(rev, idSeq, dec, start, offset) ==
    IF offset > Len(idSeq) THEN NoJump
    ELSE IF Undecided(rev, dec, idSeq[((start + offset) % Len(idSeq)) + 1])
    THEN (start + offset) % Len(idSeq)
    ELSE JumpFrom(rev, idSeq, dec, start, offset + 1)

\* a jump that takes the first pending node of the list
jumpToFirstPending(rev, idSeq, dec, active) ==
    IF Len(idSeq) = 0 \/ statsOf(rev, idSeq, dec).pending = 0 THEN active
    ELSE JumpFrom(rev, idSeq, dec, -1, 1)

\* jumpToNextPending: the value activeIndex has after the call
jumpToNextPending(rev, idSeq, dec, active) ==
    IF Len(idSeq) = 0 \/ statsOf(rev, idSeq, dec).pending = 0 THEN active
    ELSE IF JumpFrom(rev, idSeq, dec, active, 1) = NoJump THEN active
    ELSE JumpFrom(rev, idSeq, dec, active, 1)

\* setActiveIndex of the J key / the K key
nextIndex(prev, len) == IF prev = NullIndex THEN 0 ELSE (prev + 1) % len
prevIndex(prev, len) == IF prev = NullIndex THEN len - 1 ELSE (prev - 1 + len) % len

\* the keys the handlers look at, and one they do not
Keys == {"j", "k", "a", "r", "x"}

\* WysiwygDiff: the Review and HTML preview buttons
setPanelMode(mode) ==
    /\ Settled
    /\ parser # "plain"
    /\ tree # NullTree
    /\ panelMode' = mode
    /\ UNCHANGED <<parser, original, modified, decisions, activeIndex, previewVars, renderVars, appVars>>
    /\ Rerender(FALSE)

\* what the preview holds when its editing ends: a paragraph the user typed
PreviewEdits == {<<"<", "p", ">", "x", "<", "/", "p", ">">>}

\* WysiwygDiff: the Edit final HTML / Done editing button of the preview;
\* html is innerHTML of the preview when the editing ends
togglePreviewEditing(html) ==
    /\ Settled
    /\ parser # "plain"
    /\ tree # NullTree
    /\ panelMode = "preview"
    /\ editedHtml' = IF isEditingPreview THEN html ELSE editedHtml
    /\ isEditingPreview' = ~isEditingPreview
    /\ UNCHANGED <<parser, original, modified, decisions, viewVars, renderVars, appVars>>
    /\ Rerender(FALSE)

\* WysiwygDiff: a click on the row of an interactive node or on its dot in
\* the minimap, setActiveIndex(idx)
setActiveIndex(idx) ==
    /\ Settled
    /\ parser # "plain"
    /\ panelMode = "review"
    /\ tree # NullTree
    /\ idx \in 0..(Len(reviewIds) - 1)
    /\ activeIndex' = idx
    /\ UNCHANGED <<parser, original, modified, decisions, panelMode, previewVars, renderVars, appVars>>
    /\ Rerender(FALSE)

\* WysiwygDiff: the Next pending button, disabled when nothing is pending
clickNextPending ==
    /\ Settled
    /\ parser # "plain"
    /\ panelMode = "review"
    /\ tree # NullTree
    /\ stats.pending # 0
    /\ activeIndex' = jumpToNextPending(parser, reviewIds, decisions, activeIndex)
    /\ UNCHANGED <<parser, original, modified, decisions, panelMode, previewVars, renderVars, appVars>>
    /\ Rerender(FALSE)

\* WysiwygDiff: the keydown handler on window; editable says that the target
\* of the event is an input, a textarea or content being edited
handler(key, editable) ==
    /\ Settled
    /\ parser # "plain"
    /\ tree # NullTree
    /\ IF panelMode # "review" \/ editable \/ Len(reviewIds) = 0
       THEN UNCHANGED <<decisions, activeIndex>>
       ELSE IF key = "j"
       THEN activeIndex' = nextIndex(activeIndex, Len(reviewIds)) /\ UNCHANGED decisions
       ELSE IF key = "k"
       THEN activeIndex' = prevIndex(activeIndex, Len(reviewIds)) /\ UNCHANGED decisions
       ELSE IF key \in {"a", "r"} /\ activeIndex # NullIndex
       THEN /\ decisions' = setDecision(decisions, reviewIds[activeIndex + 1],
                                IF key = "a" THEN "accept" ELSE "reject")
            /\ UNCHANGED activeIndex
       ELSE UNCHANGED <<decisions, activeIndex>>
    /\ UNCHANGED <<parser, original, modified, panelMode, previewVars, renderVars, appVars>>
    /\ Rerender(/\ panelMode = "review" /\ ~editable /\ Len(reviewIds) > 0
                /\ key \in {"a", "r"} /\ activeIndex # NullIndex)

\* ReviewableDiff: a click on a change, onActivate
onActivate(idx) ==
    /\ Settled
    /\ parser = "plain"
    /\ idx \in 0..(Len(changes) - 1)
    /\ activeIndex' = idx
    /\ UNCHANGED <<parser, original, modified, decisions, panelMode, previewVars, renderVars, outerVars>>

\* ReviewableDiff: the Next pending button, disabled when nothing is pending
clickNextPendingChange ==
    /\ Settled
    /\ parser = "plain"
    /\ stats.pending # 0
    /\ activeIndex' = jumpToNextPending(parser, reviewIds, decisions, activeIndex)
    /\ UNCHANGED <<parser, original, modified, decisions, panelMode, previewVars, renderVars, outerVars>>

\* ReviewableDiff: the keydown handler on window
handlerOfChanges(key, editable) ==
    /\ Settled
    /\ parser = "plain"
    /\ IF editable \/ Len(changes) = 0
       THEN UNCHANGED <<decisions, activeIndex>>
       ELSE IF key = "j"
       THEN activeIndex' = nextIndex(activeIndex, Len(changes)) /\ UNCHANGED decisions
       ELSE IF key = "k"
       THEN activeIndex' = prevIndex(activeIndex, Len(changes)) /\ UNCHANGED decisions
       ELSE IF key \in {"a", "r"}
       THEN /\ decisions' = setDecision(decisions,
                                changes[(IF activeIndex = NullIndex THEN 0 ELSE activeIndex) + 1].id,
                                key = "a")
            /\ activeIndex' = IF activeIndex = NullIndex THEN 0 ELSE activeIndex
       ELSE UNCHANGED <<decisions, activeIndex>>
    /\ UNCHANGED <<parser, original, modified, panelMode, previewVars, renderVars, outerVars>>

ExamplesOf(rev) ==
    IF rev = "plain" THEN TextExamples
    ELSE IF rev = "nested" THEN NestedExamples
    ELSE Examples

\* WysiwygDiff on the inputs of the diff, under either revision of parse.ts
Next ==
    \/ \E d \in ExamplesOf(parser) : Reviewable(parser, d, modified) /\ SetOriginal(d)
    \/ \E d \in ExamplesOf(parser) : Reviewable(parser, original, d) /\ SetModified(d)
    \/ \E o \in ExamplesOf(parser), m \in ExamplesOf(parser) :
          Reviewable(parser, o, m) /\ SetProps(o, m)
    \/ ResetEffect
    \/ \E id \in Range(reviewIds) : onAcceptClick(id)
    \/ \E id \in Range(reviewIds) : onRejectClick(id)
    \/ \E mode \in {"accept", "reject"} : handleBulk(mode)
    \/ handleReset
    \/ \E mode \in {"review", "preview"} : setPanelMode(mode)
    \/ \E idx \in 0..(Len(reviewIds) - 1) : setActiveIndex(idx)
    \/ clickNextPending
    \/ \E key \in Keys, editable \in BOOLEAN : handler(key, editable)
    \/ \E html \in PreviewEdits : togglePreviewEditing(html)

Spec == Init /\ [][Next]_vars

SpecNested == InitNested /\ [][Next]_vars

\* WysiwygDiff on the inputs of the parser, under either revision of parse.ts
NextParse ==
    \/ \E d \in ParseChanges : Reviewable(parser, d, modified) /\ SetOriginal(d)
    \/ \E d \in ParseChanges : Reviewable(parser, original, d) /\ SetModified(d)
    \/ \E o \in ParseChanges, m \in ParseChanges :
          Reviewable(parser, o, m) /\ SetProps(o, m)
    \/ ResetEffect
    \/ \E id \in Range(reviewIds) : onAcceptClick(id)
    \/ \E id \in Range(reviewIds) : onRejectClick(id)
    \/ \E mode \in {"accept", "reject"} : handleBulk(mode)
    \/ handleReset
    \/ \E mode \in {"review", "preview"} : setPanelMode(mode)
    \/ \E idx \in 0..(Len(reviewIds) - 1) : setActiveIndex(idx)
    \/ clickNextPending
    \/ \E key \in Keys, editable \in BOOLEAN : handler(key, editable)
    \/ \E html \in PreviewEdits : togglePreviewEditing(html)

SpecParse == InitParse /\ [][NextParse]_vars

\* ReviewableDiff
NextReview ==
    \/ \E t \in Texts : SetOriginal(t)
    \/ \E t \in Texts : SetModified(t)
    \/ \E o \in TextExamples, m \in TextExamples : SetProps(o, m)
    \/ ResetEffect
    \/ \E id \in Range(reviewIds), value \in BOOLEAN : handleDecision(id, value)
    \/ \E value \in BOOLEAN : handleBulkChanges(value)
    \/ handleResetAll
    \/ \E idx \in 0..(Len(reviewIds) - 1) : onActivate(idx)
    \/ clickNextPendingChange
    \/ \E key \in Keys, editable \in BOOLEAN : handlerOfChanges(key, editable)

SpecReview == InitReview /\ [][NextReview]_vars

\* either view on the inputs of the navigation
InitNav ==
    /\ parser \in {"text", "plain"}
    /\ original \in NavInputs(parser)
    /\ modified \in NavInputs(parser)
    /\ Mounted
    /\ AppIdle
    /\ HeapEmpty

NextNav ==
    \/ \E d \in ExamplesOf(parser) : SetOriginal(d)
    \/ \E d \in ExamplesOf(parser) : SetModified(d)
    \/ \E o \in ExamplesOf(parser), m \in ExamplesOf(parser) : SetProps(o, m)
    \/ ResetEffect
    \/ parser # "plain" /\ \E id \in Range(reviewIds) : onAcceptClick(id)
    \/ parser # "plain" /\ \E id \in Range(reviewIds) : onRejectClick(id)
    \/ parser # "plain" /\ \E mode \in {"accept", "reject"} : handleBulk(mode)
    \/ parser # "plain" /\ handleReset
    \/ \E mode \in {"review", "preview"} : setPanelMode(mode)
    \/ \E idx \in 0..(Len(reviewIds) - 1) : setActiveIndex(idx)
    \/ clickNextPending
    \/ \E key \in Keys, editable \in BOOLEAN : handler(key, editable)
    \/ parser = "plain" /\ \E id \in Range(reviewIds), value \in BOOLEAN : handleDecision(id, value)
    \/ parser = "plain" /\ \E value \in BOOLEAN : handleBulkChanges(value)
    \/ parser = "plain" /\ handleResetAll
    \/ \E idx \in 0..(Len(reviewIds) - 1) : onActivate(idx)
    \/ clickNextPendingChange
    \/ \E key \in Keys, editable \in BOOLEAN : handlerOfChanges(key, editable)
    \/ \E html \in PreviewEdits : togglePreviewEditing(html)

SpecNav == InitNav /\ [][NextNav]_vars

(***************************************************************************)
(* WysiwygDiff alone on the inputs of the navigation                       *)
(***************************************************************************)
InitRender ==
    /\ parser = "text"
    /\ original \in RenderExamples
    /\ modified \in RenderExamples
    /\ Mounted
    /\ AppIdle
    /\ HeapEmpty

NextRender ==
    \/ \E d \in RenderExamples : SetOriginal(d)
    \/ \E d \in RenderExamples : SetModified(d)
    \/ \E o \in RenderExamples, m \in RenderExamples : SetProps(o, m)
    \/ ResetEffect
    \/ \E id \in Range(reviewIds) : onAcceptClick(id)
    \/ \E id \in Range(reviewIds) : onRejectClick(id)
    \/ \E mode \in {"accept", "reject"} : handleBulk(mode)
    \/ handleReset
    \/ \E mode \in {"review", "preview"} : setPanelMode(mode)
    \/ \E idx \in 0..(Len(reviewIds) - 1) : setActiveIndex(idx)
    \/ clickNextPending
    \/ \E key \in Keys, editable \in BOOLEAN : handler(key, editable)
    \/ \E html \in PreviewEdits : togglePreviewEditing(html)

SpecRender == InitRender /\ [][NextRender]_vars

(***************************************************************************)
(* App.tsx: the inputs, the tabs and the AI draft                          *)
(***************************************************************************)
\* the reads and the request a model run lets be in flight together: a file
\* is picked while fewer than MaxInFlight reads and requests are in flight, and
\* a draft is asked for while fewer than MaxInFlight reads are
MaxInFlight == 1

\* what is typed as the instruction
Instructions == {DefaultInstruction, <<"x">>}

\* res.status of a response, and the body of one that is not ok: empty, and
\* the JSON of the server's error
Statuses == {200, 500}
ErrorBodies == {<<>>, <<"{\"error\":\"Failed to call OpenAI API. Check server logs.\"}">>}

\* err.message of what an await of the handler throws; "undefined" stands
\* for a value thrown that has no message
NoMessage == <<"undefined">>
Messages == {<<"Failed to fetch">>, NoMessage}

\* const selectedExample = examples.find(...) ?? examples[0]
selectedExample ==
    LET found == SelectSeq(examples, LAMBDA ex : ex.id = selectedExampleId)
    IN  IF found # <<>> THEN found[1] ELSE examples[1]

\* const originalHtml = ...
originalHtml ==
    IF inputMode = "example" THEN selectedExample.original
    ELSE IF inputMode = "files" THEN fileOriginalText
    ELSE aiSourceText

\* const modifiedHtml = ...
modifiedHtml ==
    IF inputMode = "example" THEN selectedExample.modified
    ELSE IF inputMode = "files" THEN fileModifiedText
    ELSE IF aiDraftText # <<>> THEN aiDraftText ELSE aiSourceText

\* the view App renders for a tab
ViewOf(tab) ==
    IF tab = "review-code" THEN "plain"
    ELSE IF tab = "review-wysiwyg" THEN "html"
    ELSE "none"

\* App has rendered with its new state, and the mounted view with the props
\* of that state.  React first runs the effects a render before has left;
\* the views of the Diff tab keep no state the model follows.
AppRenders ==
    LET hooks == HooksCalled(parser, originalHtml', modifiedHtml')
        before == HooksCalled(parser, original, modified)
        newProps == originalHtml' # original \/ modifiedHtml' # modified
    IN  /\ original' = originalHtml'
        /\ modified' = modifiedHtml'
        /\ decisions' = IF resetPending THEN EmptyDecisions ELSE decisions
        /\ activeIndex' = IF resetPending THEN IndexAfterReset(parser, original, modified)
                          ELSE activeIndex
        /\ panelMode' = IF resetPending THEN "review" ELSE panelMode
        /\ isEditingPreview' = IF resetPending THEN FALSE ELSE isEditingPreview
        /\ editedHtml' = IF resetPending THEN NullHtml ELSE editedHtml
        /\ renderError' = (hooks # before)
        /\ resetPending' = (hooks = before /\ newProps /\ parser # "none"
                            /\ hooks # HooksAboveReturn)
        /\ UNCHANGED <<parser, heapVars>>

\* request without its entry i, reading without its entry i
WithoutRequest(i) == [k \in 1..(Len(request) - 1) |-> IF k < i THEN request[k] ELSE request[k + 1]]
WithoutReading(i) == [k \in 1..(Len(reading) - 1) |-> IF k < i THEN reading[k] ELSE reading[k + 1]]

\* the state of the mounted view
mountedVars == <<parser, original, modified, decisions, viewVars, previewVars, renderVars>>

\* the three radios of the input source
setInputMode(value) ==
    /\ ~renderError
    /\ value # inputMode
    /\ inputMode' = value
    /\ UNCHANGED <<selectedExampleId, fileOriginalName, fileModifiedName,
                   fileOriginalText, fileModifiedText, reading, aiVars, tabVars>>
    /\ AppRenders

\* the select of the examples, rendered in example mode
setSelectedExampleId(id) ==
    /\ ~renderError
    /\ inputMode = "example"
    /\ id # selectedExample.id
    /\ selectedExampleId' = id
    /\ UNCHANGED <<inputMode, fileOriginalName, fileModifiedName,
                   fileOriginalText, fileModifiedText, reading, aiVars, tabVars>>
    /\ AppRenders

\* the two file inputs, rendered in files mode: reader.readAsText(file)
handleFileChange(kind, file) ==
    /\ ~renderError
    /\ inputMode = "files"
    /\ Len(reading) + Len(request) < MaxInFlight
    /\ reading' = Append(reading, [kind |-> kind, file |-> file])
    /\ UNCHANGED <<mountedVars, inputMode, selectedExampleId, fileOriginalName,
                   fileModifiedName, fileOriginalText, fileModifiedText, aiVars,
                   tabVars, heapVars>>

\* the hidden file input of the source, rendered in ai mode: file.text()
handleAiSourceFileUpload(file) ==
    /\ ~renderError
    /\ inputMode = "ai"
    /\ Len(reading) + Len(request) < MaxInFlight
    /\ reading' = Append(reading, [kind |-> "ai", file |-> file])
    /\ UNCHANGED <<mountedVars, inputMode, selectedExampleId, fileOriginalName,
                   fileModifiedName, fileOriginalText, fileModifiedText, aiVars,
                   tabVars, heapVars>>

\* a read ends.  When it has loaded: reader.onload of handleFileChange, or
\* the then of handleAiSourceFileUpload; an App that is unmounted takes no
\* state.  When it has failed: FileReader is given no onerror, and the catch
\* of file.text() logs.
readEnds(i, loaded) ==
    /\ i \in 1..Len(reading)
    /\ reading' = WithoutReading(i)
    /\ IF renderError \/ ~loaded
       THEN UNCHANGED <<mountedVars, inputMode, selectedExampleId, fileOriginalName,
                        fileModifiedName, fileOriginalText, fileModifiedText, aiVars,
                        tabVars, heapVars>>
       ELSE /\ fileOriginalText' = IF reading[i].kind = "original" THEN reading[i].file.text
                                   ELSE fileOriginalText
            /\ fileOriginalName' = IF reading[i].kind = "original" THEN reading[i].file.name
                                   ELSE fileOriginalName
            /\ fileModifiedText' = IF reading[i].kind = "modified" THEN reading[i].file.text
                                   ELSE fileModifiedText
            /\ fileModifiedName' = IF reading[i].kind = "modified" THEN reading[i].file.name
                                   ELSE fileModifiedName
            /\ aiSourceText' = IF reading[i].kind = "ai" THEN reading[i].file.text
                               ELSE aiSourceText
            /\ UNCHANGED <<inputMode, selectedExampleId, aiInstruction, aiDraftText,
                           aiGenerating, aiError, request, tabVars>>
            /\ AppRenders

\* the textarea of the source, rendered in ai mode
setAiSourceText(text) ==
    /\ ~renderError
    /\ inputMode = "ai"
    /\ text # aiSourceText
    /\ aiSourceText' = text
    /\ UNCHANGED <<inputVars, aiInstruction, aiDraftText, aiGenerating, aiError, request,
                   tabVars>>
    /\ AppRenders

\* the textarea of the instruction, rendered in ai mode
setAiInstruction(text) ==
    /\ ~renderError
    /\ inputMode = "ai"
    /\ text # aiInstruction
    /\ aiInstruction' = text
    /\ UNCHANGED <<inputVars, aiSourceText, aiDraftText, aiGenerating, aiError, request,
                   tabVars>>
    /\ AppRenders

\* handleGenerateAiDraft up to its first await; the button is rendered in ai
\* mode and disabled while aiGenerating and while the source is blank
handleGenerateAiDraft ==
    /\ ~renderError
    /\ inputMode = "ai"
    /\ ~aiGenerating
    /\ Trim(aiSourceText) # <<>>
    /\ Len(reading) < MaxInFlight
    /\ aiGenerating' = TRUE
    /\ aiError' = NullError
    /\ request' = Append(request, [at |-> "fetch", status |-> 0])
    /\ UNCHANGED <<inputVars, aiSourceText, aiInstruction, aiDraftText, tabVars>>
    /\ AppRenders

\* fetch resolves with a response: the handler goes on to await res.text()
\* when !res.ok, res.json() otherwise
fetchResolves(i, status) ==
    /\ i \in 1..Len(request)
    /\ request[i].at = "fetch"
    /\ request' = [request EXCEPT ![i] = [at |-> IF status \in 200..299 THEN "json" ELSE "text",
                                          status |-> status]]
    /\ UNCHANGED <<mountedVars, inputVars, aiSourceText, aiInstruction, aiDraftText,
                   aiGenerating, aiError, tabVars, heapVars>>

\* the rest of the handler once it has left its try: setAiError when error is
\* given, setAiDraftText when draft is, then setAiGenerating(false) of the
\* finally.  An App that is unmounted takes no state.
handlerReturns(i, error, draft) ==
    /\ request' = WithoutRequest(i)
    /\ IF renderError
       THEN UNCHANGED <<mountedVars, inputVars, aiSourceText, aiInstruction, aiDraftText,
                        aiGenerating, aiError, tabVars, heapVars>>
       ELSE /\ aiError' = IF error # NullError THEN error ELSE aiError
            /\ aiDraftText' = IF error = NullError THEN draft ELSE aiDraftText
            /\ aiGenerating' = FALSE
            /\ UNCHANGED <<inputVars, aiSourceText, aiInstruction, tabVars>>
            /\ AppRenders

\* an await of the handler throws (fetch, res.text() or res.json()), or the
\* read of data.modifiedHtml does: setAiError(err?.message ?? ...)
awaitThrows(i, message) ==
    /\ i \in 1..Len(request)
    /\ handlerReturns(i, IF message = NoMessage
                         THEN <<"Unknown error while calling AI">> ELSE message,
                      aiDraftText)

\* res.text() of a response that is not ok: throw new Error(text || ...)
textRead(i, text) ==
    /\ i \in 1..Len(request)
    /\ request[i].at = "text"
    /\ handlerReturns(i, IF text # <<>> THEN text
                         ELSE <<"Request failed with status ", ToString(request[i].status)>>,
                      aiDraftText)

\* res.json() of a response that is ok: setAiDraftText(data.modifiedHtml)
jsonRead(i, html) ==
    /\ i \in 1..Len(request)
    /\ request[i].at = "json"
    /\ handlerReturns(i, NullError, html)

\* the three tabs: the view of the old tab is unmounted and the view of the
\* new one mounted
setMainView(value) ==
    /\ ~renderError
    /\ value # mainView
    /\ mainView' = value
    /\ parser' = ViewOf(value)
    /\ original' = originalHtml
    /\ modified' = modifiedHtml
    /\ decisions' = EmptyDecisions
    /\ activeIndex' = NullIndex
    /\ panelMode' = "review"
    /\ isEditingPreview' = FALSE
    /\ editedHtml' = NullHtml
    /\ resetPending' = FALSE
    /\ renderError' = FALSE
    /\ UNCHANGED <<inputVars, aiVars, diffView, diffMode, heapVars>>

\* the two buttons of the diff view, rendered in the Diff tab
setDiffView(value) ==
    /\ ~renderError
    /\ mainView = "diff"
    /\ value # diffView
    /\ diffView' = value
    /\ UNCHANGED <<inputVars, aiVars, mainView, diffMode>>
    /\ AppRenders

\* the select of the granularity, rendered in the Diff tab: setMode
setMode(value) ==
    /\ ~renderError
    /\ mainView = "diff"
    /\ value # diffMode
    /\ diffMode' = value
    /\ UNCHANGED <<inputVars, aiVars, mainView, diffView>>
    /\ AppRenders

\* the request in flight settles one await further
Settles ==
    \E i \in 1..Len(request) :
       \/ \E status \in Statuses : fetchResolves(i, status)
       \/ \E message \in Messages : awaitThrows(i, message)
       \/ \E text \in ErrorBodies : textRead(i, text)
       \/ \E html \in DraftTexts : jsonRead(i, html)

InitApp ==
    /\ AppIdle
    /\ HeapEmpty
    /\ parser = ViewOf(mainView)
    /\ original = originalHtml
    /\ modified = modifiedHtml
    /\ Mounted

\* every event of App.  The handlers of the mounted view are those of the
\* specifications above: a view is given original and modified and nothing
\* else, so they read and write the state of the view alone.
NextApp ==
    \/ \E value \in {"example", "files", "ai"} : setInputMode(value)
    \/ \E k \in 1..Len(examples) : setSelectedExampleId(examples[k].id)
    \/ \E kind \in {"original", "modified"}, file \in Files : handleFileChange(kind, file)
    \/ \E file \in Files : handleAiSourceFileUpload(file)
    \/ \E i \in 1..Len(reading), loaded \in BOOLEAN : readEnds(i, loaded)
    \/ \E text \in AiTexts : setAiSourceText(text)
    \/ \E text \in Instructions : setAiInstruction(text)
    \/ handleGenerateAiDraft
    \/ \E i \in 1..Len(request), status \in Statuses : fetchResolves(i, status)
    \/ \E i \in 1..Len(request), message \in Messages : awaitThrows(i, message)
    \/ \E i \in 1..Len(request), text \in ErrorBodies : textRead(i, text)
    \/ \E i \in 1..Len(request), html \in DraftTexts : jsonRead(i, html)
    \/ \E value \in {"diff", "review-code", "review-wysiwyg"} : setMainView(value)
    \/ \E value \in {"unified", "side-by-side"} : setDiffView(value)
    \/ \E value \in {"chars", "words", "lines"} : setMode(value)
    \/ ResetEffect

SpecApp == InitApp /\ [][NextApp]_vars

\* the browser settles every fetch and every read of a body, and the event
\* loop then runs the rest of the handler; React runs the effects of every
\* render it has committed
SpecAppFair == SpecApp /\ WF_request(Settles) /\ WF_resetPending(ResetEffect)

(***************************************************************************)
(* Properties                                                              *)
(***************************************************************************)
\* the li and block nodes of a tree, in document order
RECURSIVE NodesOf(_)
NodesOf(node) ==
    (IF node.type \in {"li", "block"} THEN <<node>> ELSE <<>>)
    \o Concat([i \in 1..Len(node.children) |-> NodesOf(node.children[i])])

IdsOf(node) == [i \in 1..Len(NodesOf(node)) |-> NodesOf(node)[i].id]

\* the tag a li or block is emitted with
TagOfNode(node) == IF node.type = "li" THEN "li" ELSE node.tag

\* the values of the parts whose flag `skip` is not set, in order
RECURSIVE Keeping(_, _)
Keeping(parts, skip) ==
    IF parts = <<>> THEN <<>>
    ELSE (IF Head(parts)[skip] THEN <<>> ELSE Head(parts).value)
         \o Keeping(Tail(parts), skip)

\* the outputs of a node's children, concatenated in document order
ChildrenHtml(node, dec) ==
    Concat([k \in 1..Len(node.children) |-> nodeToFinalHtml(node.children[k], dec)])

\* a li or block emitted from the parts whose flag `skip` is not set
EmittedKeeping(node, skip, dec) ==
    OpenTag(TagOfNode(node)) \o Keeping(node.inlineParts, skip)
    \o ChildrenHtml(node, dec) \o CloseTag(TagOfNode(node))

\* every li and block of the tree decided the same way
AllDecided(mode) == [id \in Range(IdsOf(tree)) |-> mode]

\* the decisions with every decision that is not accept turned into reject
RejectUndecided(dec) ==
    [id \in Range(IdsOf(tree)) \cup DOMAIN dec |->
        IF DecisionOf(dec, id) = "accept" THEN "accept" ELSE "reject"]

\* the markup of an html string (its tags, text left out) and its text
RECURSIVE Scan(_, _, _)
Scan(html, inTag, wantTags) ==
    IF html = <<>> THEN <<>>
    ELSE LET c == Head(html)
             isMarkup == inTag \/ c = "<"
         IN  (IF isMarkup = wantTags THEN <<c>> ELSE <<>>)
             \o Scan(Tail(html), isMarkup /\ c # ">", wantTags)

TagsOf(html) == Scan(html, FALSE, TRUE)
TextOf(html) == Scan(html, FALSE, FALSE)

Min(x, y) == IF x <= y THEN x ELSE y

\* the positions both roots have a child at
AlignedTop == 1..Min(Len(treeA.children), Len(treeB.children))
\* the positions where two lists were aligned
AlignedLists == {i \in AlignedTop : isListNode(treeA.children[i]) /\ isListNode(treeB.children[i])}
\* the items both lists at position i have
AlignedItems(i) ==
    1..Min(Len(treeA.children[i].children), Len(treeB.children[i].children))

\* the li and block nodes diff produced from a node present on both sides,
\* each with the original and the modified node it came from
BothSides ==
    IF tree = NullTree THEN {}
    ELSE {[out |-> tree.children[i], a |-> treeA.children[i], b |-> treeB.children[i]] :
             i \in AlignedTop \ AlignedLists}
         \cup UNION {{[out |-> tree.children[i].children[j],
                       a |-> treeA.children[i].children[j],
                       b |-> treeB.children[i].children[j]] : j \in AlignedItems(i)} :
                     i \in AlignedLists}

\* C1: a li or block that is not accepted (absent from the map, or undecided)
\* is emitted exactly as if rejected: from its parts with every added part
\* left out; so the output under the empty map is the output under all-reject
C1_UndecidedIsRejected ==
    /\ baseFinalHtml = nodeToFinalHtml(tree, RejectUndecided(decisions))
    /\ nodeToFinalHtml(tree, EmptyDecisions) = nodeToFinalHtml(tree, AllDecided("reject"))
    /\ \A node \in Range(NodesOf(tree)) :
          DecisionOf(decisions, node.id) # "accept"
          => nodeToFinalHtml(node, decisions)
               = EmittedKeeping(node, "added", decisions)

\* a node with an inserted text whose decision was taken back, next to an
\* accepted one
C1_Witness ==
    /\ \E node \in Range(NodesOf(tree)) :
          /\ node.id \in DOMAIN decisions
          /\ decisions[node.id] = "undefined"
          /\ \E k \in 1..Len(node.inlineParts) :
                /\ node.inlineParts[k].added
                /\ node.inlineParts[k].value # <<>>
    /\ \E id \in DOMAIN decisions : decisions[id] = "accept"

Unique(seq) == \A i, j \in 1..Len(seq) : seq[i] = seq[j] => i = j

\* C2: no two li/block nodes of a parsed tree, and none of a diff tree, share
\* an id
C2_UniqueIds ==
    /\ Unique(IdsOf(treeA))
    /\ Unique(IdsOf(treeB))
    /\ Unique(IdsOf(tree))

\* C3: with every node accepted the output is the modified document's
\* blocks and lists with the modified text; with every node rejected it has
\* the original document's block tags, list kinds and item counts
C3_AcceptRejectDuality ==
    tree # NullTree =>
      /\ nodeToFinalHtml(tree, AllDecided("accept")) = nodeToFinalHtml(treeB, EmptyDecisions)
      /\ TagsOf(nodeToFinalHtml(tree, AllDecided("reject")))
           = TagsOf(nodeToFinalHtml(treeA, EmptyDecisions))

\* C4: for a node present on both sides, the parts without the added ones
\* are exactly the original text, and without the removed ones exactly the
\* modified text
C4_RoundTripExact ==
    \A t \in BothSides :
       /\ buildHtmlFromParts(t.out.inlineParts, "original") = getNodeText(t.a)
       /\ buildHtmlFromParts(t.out.inlineParts, "modified") = getNodeText(t.b)

\* every way of deciding the nodes of the tree
DecisionMaps == [Range(IdsOf(tree)) -> {"accept", "reject", "undefined"}]

AllUnchanged(root) ==
    \A node \in Range(NodesOf(root)) : node.status = "unchanged"

\* a document diffed against itself
SelfDiff == original = modified /\ tree # NullTree

\* C5: the diff of a document against itself is all unchanged, its output
\* is the same under every decision map, and the text of that output is
\* exactly the text content of the document
C5_SelfDiffExact ==
    SelfDiff =>
      /\ AllUnchanged(tree)
      /\ \A dec \in DecisionMaps : nodeToFinalHtml(tree, dec) = baseFinalHtml
      /\ TextOf(baseFinalHtml) = TextContent(original)

\* the modified list at position i is the original one without its last items
TrailingItemsRemoved(i) ==
    /\ Len(treeB.children[i].children) < Len(treeA.children[i].children)
    /\ treeA.children[i].type = treeB.children[i].type
    /\ \A j \in AlignedItems(i) :
          getNodeText(treeA.children[i].children[j])
            = getNodeText(treeB.children[i].children[j])

\* C6: when the modified list is the original one without its last items,
\* the shared items are unchanged and the missing ones removed; with no
\* decision the output is the original list, and with the removed items
\* accepted it is the list of the remaining items
C6_TrailingItemsRemoved ==
    tree # NullTree =>
      \A i \in AlignedLists :
         TrailingItemsRemoved(i) =>
           LET out == tree.children[i]
               kept == Len(treeB.children[i].children)
               removedIds == {out.children[j].id : j \in (kept + 1)..Len(out.children)}
           IN  /\ Len(out.children) = Len(treeA.children[i].children)
               /\ \A j \in 1..Len(out.children) :
                     out.children[j].status = IF j <= kept THEN "unchanged" ELSE "removed"
               /\ nodeToFinalHtml(out, EmptyDecisions)
                    = nodeToFinalHtml(treeA.children[i], EmptyDecisions)
               /\ nodeToFinalHtml(out, [id \in removedIds |-> "accept"])
                    = nodeToFinalHtml(treeB.children[i], EmptyDecisions)

\* C7: the li diffed from two aligned items carries the diff of their
\* nested children, aligned by position, whenever either item has children
C7_NestedChildrenDiffed ==
    tree # NullTree =>
      \A i \in AlignedLists : \A j \in AlignedItems(i) :
         LET a == treeA.children[i].children[j]
             b == treeB.children[i].children[j]
         IN  Len(a.children) > 0 \/ Len(b.children) > 0
             => tree.children[i].children[j].children
                  = diffRoot(RootNode(a.children), RootNode(b.children)).children

\* C8: an accepted li or block is emitted as its parts without the removed
\* ones, in order, inside its own tag; the root emits its children's outputs
\* in document order and a list wraps them in its ul/ol tag
C8_AcceptEmits ==
    /\ \A node \in Range(NodesOf(tree)) :
          DecisionOf(decisions, node.id) = "accept"
          => nodeToFinalHtml(node, decisions)
               = EmittedKeeping(node, "removed", decisions)
    /\ tree # NullTree => baseFinalHtml = ChildrenHtml(tree, decisions)
    /\ \A i \in 1..Len(tree.children) :
          isListNode(tree.children[i])
          => nodeToFinalHtml(tree.children[i], decisions)
               = OpenTag(tree.children[i].type)
                 \o ChildrenHtml(tree.children[i], decisions)
                 \o CloseTag(tree.children[i].type)

\* an accepted node with a removed and an added text, in a tree with a list
C8_Witness ==
    /\ \E node \in Range(NodesOf(tree)) :
          /\ DecisionOf(decisions, node.id) = "accept"
          /\ \E k \in 1..Len(node.inlineParts) :
                /\ node.inlineParts[k].removed
                /\ node.inlineParts[k].value # <<>>
          /\ \E k \in 1..Len(node.inlineParts) :
                node.inlineParts[k].added
    /\ \E i \in 1..Len(tree.children) : isListNode(tree.children[i])

\* C9: a li or block of a diff tree is unchanged exactly when none of its
\* parts is flagged; one with a flagged part is changed, added or removed
C9_StatusMatchesParts ==
    \A node \in Range(NodesOf(tree)) :
       LET flagged == \E k \in 1..Len(node.inlineParts) :
                         node.inlineParts[k].added \/ node.inlineParts[k].removed
       IN  /\ node.status = "unchanged" <=> ~flagged
           /\ node.status \in {"unchanged", "changed", "added", "removed"}

\* a tree with an unchanged node beside a removed one, whose parts are all
\* flagged removed
C9_Witness ==
    /\ \E node \in Range(NodesOf(tree)) : node.status = "unchanged"
    /\ \E node \in Range(NodesOf(tree)) :
          /\ node.status = "removed"
          /\ node.inlineParts # <<>>
          /\ \A i \in DOMAIN node.inlineParts : node.inlineParts[i].removed

\* the child at position i, if there is one
ChildAt(node, i) == IF i <= Len(node.children) THEN <<node.children[i]>> ELSE <<>>

\* the diff tree has as many children as the longer root, and a diffed list
\* as many items as the longer list
AlignedCount ==
    tree # NullTree =>
      /\ Len(tree.children) = Max(Len(treeA.children), Len(treeB.children))
      /\ \A i \in AlignedLists :
            Len(tree.children[i].children)
              = Max(Len(treeA.children[i].children), Len(treeB.children[i].children))

\* child i of the later diff tree is child i of the earlier one when the two
\* children at position i are the same in both
SameChildren(a, b, out, a2, b2, out2) ==
    \A i \in 1..Len(out.children) :
       (ChildAt(a, i) = ChildAt(a2, i) /\ ChildAt(b, i) = ChildAt(b2, i))
       => ChildAt(out2, i) = ChildAt(out, i)

\* a change of the inputs that leaves the two children at position i alone
\* leaves child i of the diff tree alone, and likewise for the items of two
\* aligned lists
AlignedLocalOf(a, b, out, a2, b2, out2) ==
    (out # NullTree /\ out2 # NullTree) =>
      /\ SameChildren(a, b, out, a2, b2, out2)
      /\ \A i \in 1..Min(Min(Len(a.children), Len(b.children)),
                         Min(Len(a2.children), Len(b2.children))) :
            (/\ isListNode(a.children[i]) /\ isListNode(b.children[i])
             /\ isListNode(a2.children[i]) /\ isListNode(b2.children[i]))
            => SameChildren(a.children[i], b.children[i], out.children[i],
                            a2.children[i], b2.children[i], out2.children[i])

AlignedLocal == AlignedLocalOf(treeA, treeB, tree, treeA', treeB', tree')

\* the steps that give the component new inputs, from a state without
\* decisions (diff does not read the decisions)
NewInputs ==
    /\ decisions = EmptyDecisions
    /\ original' # original \/ modified' # modified

\* C10: the children of two roots, and of two lists, are aligned by position:
\* output child i depends on a.children[i] and b.children[i] only, and the
\* output has max(|a.children|, |b.children|) children
C10_PositionalAlignment == [][NewInputs => (AlignedCount /\ AlignedLocal)]_vars

\* a shorter original against a longer modified, with two lists of different
\* lengths aligned
C10_Witness ==
    /\ tree # NullTree
    /\ Len(treeA.children) < Len(treeB.children)
    /\ Len(tree.children) = Len(treeB.children)
    /\ \E i \in AlignedLists :
          Len(treeA.children[i].children) # Len(treeB.children[i].children)

\* `out` has the lists, items and blocks of `node`, each li and block with
\* status `mode` and one part holding the node's text flagged `mode`
RECURSIVE MarkedCopy(_, _, _)
MarkedCopy(out, node, mode) ==
    /\ out.type = node.type
    /\ out.tag = node.tag
    /\ Len(out.children) = Len(node.children)
    /\ \A k \in 1..Len(node.children) :
          MarkedCopy(out.children[k], node.children[k], mode)
    /\ node.type \in {"li", "block"}
       => /\ out.status = mode
          /\ out.inlineParts
               = <<Part(getNodeText(node), mode = "added", mode = "removed")>>

\* the children of `out` past the end of `a` are marked copies of those of
\* `b`, and those past the end of `b` marked copies of those of `a`
OneSidedMarked(a, b, out) ==
    \A i \in 1..Len(out.children) :
       /\ (i > Len(a.children) /\ i <= Len(b.children))
          => MarkedCopy(out.children[i], b.children[i], "added")
       /\ (i > Len(b.children) /\ i <= Len(a.children))
          => MarkedCopy(out.children[i], a.children[i], "removed")

\* C11: a subtree present on one side only comes out with the lists, items
\* and blocks it has, every li and block in it added (resp. removed) with a
\* single part holding its whole text flagged added (resp. removed); at the
\* root and inside two aligned lists
C11_OneSidedMarked ==
    tree # NullTree =>
      /\ OneSidedMarked(treeA, treeB, tree)
      /\ \A i \in AlignedLists :
            OneSidedMarked(treeA.children[i], treeB.children[i], tree.children[i])

\* diffHtmlTrees(original, modified), computed from the two parsed trees
diffTree == DiffParsed(treeA, treeB)

\* two nodes the differ cannot align structurally: a block against a list,
\* or two blocks with different tags
ShapeDiffers(a, b) ==
    \/ isBlockNode(a) /\ isListNode(b)
    \/ isListNode(a) /\ isBlockNode(b)
    \/ isBlockNode(a) /\ isBlockNode(b) /\ a.tag # b.tag

\* the strings ts[k], ts[k + 1], ... with one space between two of them
RECURSIVE SpaceJoinedFrom(_, _)
SpaceJoinedFrom(ts, k) ==
    IF k > Len(ts) THEN <<>>
    ELSE (IF k > 1 THEN <<" ">> ELSE <<>>) \o ts[k] \o SpaceJoinedFrom(ts, k + 1)

\* the text of a block, or the texts of the items of a list that have one,
\* joined by single spaces
FlattenedText(node) ==
    IF isListNode(node)
    THEN SpaceJoinedFrom(
             SelectSeq([k \in 1..Len(node.children) |->
                           Concat(PartValues(node.children[k].inlineParts))],
                       LAMBDA t : t # <<>>), 1)
    ELSE Concat(PartValues(node.inlineParts))

\* C12: two nodes aligned at a root index that differ in shape come out as
\* exactly one block in their place: its tag is b's if b is a block, else
\* a's if a is a block, else p, and its parts are the word diff of the two
\* flattened texts
C12_FallbackBlock ==
    diffTree # NullTree =>
      /\ Len(diffTree.children) = Max(Len(treeA.children), Len(treeB.children))
      /\ \A i \in AlignedTop :
            LET a == treeA.children[i]
                b == treeB.children[i]
                out == diffTree.children[i]
            IN  ShapeDiffers(a, b) =>
                  /\ out.type = "block"
                  /\ out.children = <<>>
                  /\ out.tag = (IF isBlockNode(b) THEN b.tag
                                ELSE IF isBlockNode(a) THEN a.tag
                                ELSE "p")
                  /\ out.inlineParts = diffWords(FlattenedText(a), FlattenedText(b))
                  /\ out.status = (IF \E k \in 1..Len(out.inlineParts) :
                                         out.inlineParts[k].added \/ out.inlineParts[k].removed
                                   THEN "changed" ELSE "unchanged")

\* a heading aligned with a list of two items with text: the block that
\* comes out is a heading, and the two item texts are joined in its parts
ListForBlock ==
    /\ diffTree # NullTree
    /\ \E i \in AlignedTop :
          /\ isBlockNode(treeA.children[i]) /\ isListNode(treeB.children[i])
          /\ treeA.children[i].tag = "h2"
          /\ Len(SelectSeq(treeB.children[i].children,
                           LAMBDA li : li.inlineParts # <<>>)) = 2
          /\ diffTree.children[i].id = FallbackId(i - 1)
          /\ diffTree.children[i].tag = "h2"
          /\ diffTree.children[i].status = "changed"
          /\ \E k \in 1..Len(diffTree.children[i].inlineParts) :
                diffTree.children[i].inlineParts[k].added

\* a modified document whose list is aligned with a heading of the original
C12_Witness == ListForBlock

\* collectNodes(body) of the revision the build uses
Collected(rev, body) ==
    IF rev = "nested" THEN collectNodesNested(body) ELSE collectNodes(body)

\* C13: a document without content parses to null; one with text but no
\* block or list parses to a root holding one paragraph built from the whole
\* text; and every tree parse returns is a root with a block or list item
\* that has text
C13_NullOrContent ==
    /\ Trim(TextContent(original)) = <<>> => treeA = NullTree
    /\ (Collected(parser, original) = <<>> /\ Trim(TextContent(original)) # <<>>)
       => /\ isRootNode(treeA)
          /\ Len(treeA.children) = 1
          /\ treeA.children[1].type = "block"
          /\ treeA.children[1].tag = "p"
          /\ TextOf(getNodeText(treeA.children[1])) = Trim(TextContent(original))
    /\ treeA # NullTree
       => /\ isRootNode(treeA)
          /\ \E node \in Range(NodesOf(treeA)) : getNodeText(node) # <<>>

\* the handlers of the review
Review ==
    \/ \E id \in Range(interactiveIds(tree)) : onAcceptClick(id)
    \/ \E id \in Range(interactiveIds(tree)) : onRejectClick(id)
    \/ \E mode \in {"accept", "reject"} : handleBulk(mode)
    \/ handleReset

\* C14: diffHtmlTrees returns null exactly when one of the two parses does,
\* and hands the differ two roots otherwise; with a null tree the component
\* shows its empty state, holds no decision and offers no review handler
C14_NullTree ==
    /\ tree = NullTree <=> (treeA = NullTree \/ treeB = NullTree)
    /\ tree # NullTree => (isRootNode(treeA) /\ isRootNode(treeB) /\ isRootNode(tree))
    /\ tree = NullTree
       => /\ rendered = [view |-> "empty", html |-> NoSupportedHtml]
          /\ decisions = EmptyDecisions
          /\ ~ENABLED Review

(***************************************************************************)
(* The differ and the resolver object by object.  The heap is the sequence *)
(* of the objects created so far and the address of an object is its       *)
(* index; 0 stands for undefined.  Every object carries every field.       *)
(***************************************************************************)
\* a call's outcome: the heap it leaves and the address or value it returns
Returned(h, ref) == [heap |-> h, ref |-> ref]
\* a new object
Alloc(h, obj) == Returned(Append(h, obj), Len(h) + 1)

\* the objects of an array of parts when base objects exist already: the
\* parts, then the array that holds them
PartObjects(parts, base) ==
    [k \in 1..Len(parts) |->
        PartObject(parts[k].value, parts[k].added, parts[k].removed)]
    \o <<ArrayObject([k \in 1..Len(parts) |-> base + k])>>

\* the array of parts a literal or diffWords creates
NewParts(h, parts) ==
    Returned(h \o PartObjects(parts, Len(h)), Len(h) + Len(parts) + 1)

\* the objects of a tree parseHtmlToTree returns when base objects exist
\* already, the node itself last: a root and a list hold an array of
\* children, an li holds one only when it has nested nodes, and an li and a
\* block hold an array of parts
RECURSIVE TreeObjects(_, _)
RECURSIVE ChildObjects(_, _, _)
TreeObjects(node, base) ==
    LET parts == IF node.type \in {"li", "block"}
                 THEN PartObjects(node.inlineParts, base)
                 ELSE <<>>
        kids == IF node.type \in {"root", "ul", "ol"} \/ node.children # <<>>
                THEN ChildObjects(node.children, base + Len(parts), <<>>)
                ELSE <<>>
    IN  parts \o kids
        \o <<NodeObject(node.type, node.tag, node.id, node.status,
                        IF parts = <<>> THEN 0 ELSE base + Len(parts),
                        IF kids = <<>> THEN 0 ELSE base + Len(parts) + Len(kids))>>
\* the objects of the children, one tree after the other, then the array
\* that holds the addresses refs of their nodes
ChildObjects(nodes, base, refs) ==
    IF nodes = <<>> THEN <<ArrayObject(refs)>>
    ELSE LET first == TreeObjects(Head(nodes), base)
         IN  first \o ChildObjects(Tail(nodes), base + Len(first),
                                   Append(refs, base + Len(first)))

NewTree(h, node) ==
    Returned(h \o TreeObjects(node, Len(h)), Len(h) + Len(TreeObjects(node, Len(h))))

\* the parts an array holds, and node.children and node.inlineParts; a
\* missing property reads as no element
ArrayParts(h, array) ==
    [k \in 1..Len(h[array].items) |->
        Part(h[h[array].items[k]].value, h[h[array].items[k]].added,
             h[h[array].items[k]].removed)]
PartsAt(h, ref) ==
    IF h[ref].inlineParts = 0 THEN <<>> ELSE ArrayParts(h, h[ref].inlineParts)
ChildrenAt(h, ref) == IF h[ref].children = 0 THEN <<>> ELSE h[h[ref].children].items

\* getNodeText: every map and filter leaves an array of strings
RECURSIVE getNodeTextOn(_, _)
RECURSIVE TextsOn(_, _, _)
getNodeTextOn(h, ref) ==
    IF h[ref].type \in {"li", "block"}
    THEN LET values == PartValues(PartsAt(h, ref))
         IN  [heap |-> Append(h, StringsObject(values)), text |-> Concat(values)]
    ELSE IF h[ref].type \in {"ul", "ol", "root"}
    THEN LET Joined(texts) ==
                 [heap |-> texts.heap
                           \o <<StringsObject(texts.strings),
                                StringsObject(SelectSeq(texts.strings, LAMBDA t : t # <<>>))>>,
                  text |-> JoinSpace(texts.strings)]
         IN  Joined(TextsOn(h, ChildrenAt(h, ref), <<>>))
    ELSE [heap |-> h, text |-> <<>>]
\* the calls of getNodeText a map makes, one child after the other
TextsOn(h, refs, strs) ==
    IF refs = <<>> THEN [heap |-> h, strings |-> strs]
    ELSE LET After(first) == TextsOn(first.heap, Tail(refs), Append(strs, first.text))
         IN  After(getNodeTextOn(h, Head(refs)))

\* children.push(node)
Push(h, array, ref) == [h EXCEPT ![array].items = Append(@, ref)]

\* the node built from the word diff of the texts of two nodes
DiffedOn(h, type, tag, id, aRef, bRef) ==
    LET Node(parts) ==
            Alloc(parts.heap,
                  NodeObject(type, tag, id, StatusOf(ArrayParts(parts.heap, parts.ref)),
                             parts.ref, 0))
        Parts(originalText, modifiedText) ==
            NewParts(modifiedText.heap, diffWords(originalText.text, modifiedText.text))
        Second(originalText) == Parts(originalText, getNodeTextOn(originalText.heap, bRef))
    IN  Node(Second(getNodeTextOn(h, aRef)))

\* the li diffList pushes for an item one side has alone
OneSidedLiOn(h, id, mode, ref) ==
    LET Node(parts) == Alloc(parts.heap, NodeObject("li", "", id, mode, parts.ref, 0))
        Parts(text) == NewParts(text.heap, <<MarkedPart(text.text, mode)>>)
    IN  Node(Parts(getNodeTextOn(h, ref)))

\* diffList's loop from index i (0-based) on, pushing to the array children
RECURSIVE DiffListFrom(_, _, _, _, _)
DiffListFrom(h, a, b, i, children) ==
    LET as == ChildrenAt(h, a)
        bs == ChildrenAt(h, b)
        hasA == i < Len(as)
        hasB == i < Len(bs)
        node == IF ~hasA /\ hasB /\ h[bs[i + 1]].type = "li"
                THEN OneSidedLiOn(h, LiId(i), "added", bs[i + 1])
                ELSE IF hasA /\ ~hasB /\ h[as[i + 1]].type = "li"
                THEN OneSidedLiOn(h, LiId(i), "removed", as[i + 1])
                ELSE IF /\ hasA /\ hasB
                        /\ h[as[i + 1]].type = "li" /\ h[bs[i + 1]].type = "li"
                THEN DiffedOn(h, "li", "", LiId(i), as[i + 1], bs[i + 1])
                ELSE Returned(h, 0)
        Pushed(made) ==
            IF made.ref = 0 THEN made.heap ELSE Push(made.heap, children, made.ref)
    IN  IF i >= Max(Len(as), Len(bs)) THEN h
        ELSE DiffListFrom(Pushed(node), a, b, i + 1, children)

diffListOn(h, a, b) ==
    IF h[a].type \notin {"ul", "ol"} \/ h[b].type \notin {"ul", "ol"} THEN Returned(h, b)
    ELSE LET children == Alloc(h, ArrayObject(<<>>))
         IN  Alloc(DiffListFrom(children.heap, a, b, 0, children.ref),
                   NodeObject(h[a].type, "", NoId, "", 0, children.ref))

diffBlockOn(h, a, b, index) == DiffedOn(h, "block", h[a].tag, BlockId(index), a, b)

diffFallbackBlockOn(h, a, b, index) ==
    DiffedOn(h, "block",
             IF h[b].type = "block" THEN h[b].tag
             ELSE IF h[a].type = "block" THEN h[a].tag
             ELSE "p",
             FallbackId(index), a, b)

\* const part = { value: text }, then part.added = true or part.removed =
\* true, then the node that holds [part]
MarkedOn(h, type, tag, id, mode, ref) ==
    LET Node(parts) == Alloc(parts.heap, NodeObject(type, tag, id, mode, parts.ref, 0))
        Parts(part) == Alloc(part.heap, ArrayObject(<<part.ref>>))
        Flagged(part) ==
            Returned(IF mode = "added"
                     THEN [part.heap EXCEPT ![part.ref].added = TRUE]
                     ELSE [part.heap EXCEPT ![part.ref].removed = TRUE],
                     part.ref)
        NewPart(text) == Alloc(text.heap, PartObject(text.text, FALSE, FALSE))
    IN  Node(Parts(Flagged(NewPart(getNodeTextOn(h, ref)))))

\* a marker that writes the status into the node it was given and hands the
\* node back
markSubtreeInPlace(h, node, mode, index) ==
    Returned([h EXCEPT ![node].status = mode], node)

RECURSIVE markSubtreeOn(_, _, _, _)
RECURSIVE MarkEachOn(_, _, _, _, _)
markSubtreeOn(h, node, mode, index) ==
    IF h[node].type \in {"ul", "ol"}
    THEN LET List(children) ==
                 Alloc(children.heap, NodeObject(h[node].type, "", NoId, "", 0, children.ref))
             Children(kids) == Alloc(kids.heap, ArrayObject(kids.ref))
         IN  List(Children(MarkEachOn(h, ChildrenAt(h, node), mode, index, <<>>)))
    ELSE IF h[node].type = "li"
    THEN MarkedOn(h, "li", "",
                  IF h[node].id = NoId THEN LiId(index) ELSE h[node].id, mode, node)
    ELSE IF h[node].type = "block"
    THEN MarkedOn(h, "block", h[node].tag,
                  IF h[node].id = NoId THEN BlockId(index) ELSE h[node].id, mode, node)
    ELSE Returned(h, node)
\* the calls of markSubtree the map makes; ref holds the addresses returned
MarkEachOn(h, refs, mode, index, done) ==
    IF refs = <<>> THEN Returned(h, done)
    ELSE LET After(first) ==
                 MarkEachOn(first.heap, Tail(refs), mode, index, Append(done, first.ref))
         IN  After(markSubtreeOn(h, Head(refs), mode, index))

\* diffRoot's loop from index i (0-based) on, pushing to the array children
RECURSIVE DiffRootFrom(_, _, _, _, _)
DiffRootFrom(h, a, b, i, children) ==
    LET as == ChildrenAt(h, a)
        bs == ChildrenAt(h, b)
        hasA == i < Len(as)
        hasB == i < Len(bs)
        node == IF ~hasA /\ hasB THEN markSubtreeOn(h, bs[i + 1], "added", i)
                ELSE IF hasA /\ ~hasB THEN markSubtreeOn(h, as[i + 1], "removed", i)
                ELSE IF /\ h[as[i + 1]].type \in {"ul", "ol"}
                        /\ h[bs[i + 1]].type \in {"ul", "ol"}
                THEN diffListOn(h, as[i + 1], bs[i + 1])
                ELSE IF /\ h[as[i + 1]].type = "block" /\ h[bs[i + 1]].type = "block"
                        /\ h[as[i + 1]].tag = h[bs[i + 1]].tag
                THEN diffBlockOn(h, as[i + 1], bs[i + 1], i)
                ELSE diffFallbackBlockOn(h, as[i + 1], bs[i + 1], i)
        Pushed(made) == Push(made.heap, children, made.ref)
    IN  IF i >= Max(Len(as), Len(bs)) THEN h
        ELSE DiffRootFrom(Pushed(node), a, b, i + 1, children)

diffRootOn(h, a, b) ==
    IF h[a].type # "root" \/ h[b].type # "root"
    THEN Returned(h, IF h[b].type = "root" THEN b ELSE a)
    ELSE LET children == Alloc(h, ArrayObject(<<>>))
         IN  Alloc(DiffRootFrom(children.heap, a, b, 0, children.ref),
                   NodeObject("root", "", NoId, "", 0, children.ref))

\* buildHtmlFromParts: the map leaves an array of strings
buildHtmlFromPartsOn(h, array, mode) ==
    LET pieces == [k \in 1..Len(h[array].items) |->
                      IF mode = "original"
                      THEN (IF h[h[array].items[k]].added THEN <<>>
                            ELSE h[h[array].items[k]].value)
                      ELSE (IF h[h[array].items[k]].removed THEN <<>>
                            ELSE h[h[array].items[k]].value)]
    IN  [heap |-> Append(h, StringsObject(pieces)), html |-> Concat(pieces)]

\* nodeToFinalHtml with the decision map at the address dec
RECURSIVE nodeToFinalHtmlOn(_, _, _)
RECURSIVE HtmlsOn(_, _, _, _)
nodeToFinalHtmlOn(h, ref, dec) ==
    LET node == h[ref]
        mode == ModeOf(h[dec].entries, node.id)
        top == IF node.type = "block" \/ Len(h[node.inlineParts].items) > 0
               THEN buildHtmlFromPartsOn(h, node.inlineParts, mode)
               ELSE [heap |-> h, html |-> <<>>]
        kids == HtmlsOn(IF node.type = "li" THEN top.heap ELSE h,
                        ChildrenAt(h, ref), dec, <<>>)
        inner == [heap |-> Append(kids.heap, StringsObject(kids.strings)),
                  html |-> Concat(kids.strings)]
    IN  IF node.type = "root" THEN inner
        ELSE IF node.type = "block"
        THEN [heap |-> top.heap, html |-> OpenTag(node.tag) \o top.html \o CloseTag(node.tag)]
        ELSE IF node.type \in {"ul", "ol"}
        THEN [heap |-> inner.heap,
              html |-> OpenTag(node.type) \o inner.html \o CloseTag(node.type)]
        ELSE IF node.type = "li"
        THEN [heap |-> IF node.children = 0 THEN top.heap ELSE inner.heap,
              html |-> OpenTag("li") \o top.html
                       \o (IF node.children = 0 THEN <<>> ELSE inner.html)
                       \o CloseTag("li")]
        ELSE [heap |-> h, html |-> <<>>]
\* the calls of nodeToFinalHtml a map makes, one child after the other
HtmlsOn(h, refs, dec, strs) ==
    IF refs = <<>> THEN [heap |-> h, strings |-> strs]
    ELSE LET first == nodeToFinalHtmlOn(h, Head(refs), dec)
         IN  HtmlsOn(first.heap, Tail(refs), dec, Append(strs, first.html))

\* const tree = diffHtmlTrees(original, modified), in the body of the
\* component: the two parses of a render, for two documents that both have a
\* tree
parseInputs ==
    /\ ~renderError
    /\ heap # <<>>
    /\ tree # NullTree
    /\ treeARef = 0
    /\ LET a == NewTree(heap, treeA)
           b == NewTree(a.heap, treeB)
       IN  /\ heap' = b.heap
           /\ treeARef' = a.ref
           /\ treeBRef' = b.ref
    /\ UNCHANGED <<parser, original, modified, decisions, viewVars, previewVars,
                   renderVars, appVars, treeRef, decisionsRef, finalHtml>>

\* return diffRoot(treeA, treeB), in the same render
diffParsedTrees ==
    /\ treeARef # 0
    /\ treeRef = 0
    /\ LET result == diffRootOn(heap, treeARef, treeBRef)
       IN  /\ heap' = result.heap
           /\ treeRef' = result.ref
    /\ UNCHANGED <<parser, original, modified, decisions, viewVars, previewVars,
                   renderVars, appVars, treeARef, treeBRef, decisionsRef, finalHtml>>

\* useMemo(() => nodeToFinalHtml(tree), [tree, decisions]), in the same
\* render: the tree is a new object in every render, so the memo never holds
resolveTree ==
    /\ treeRef # 0
    /\ finalHtml.deps # <<treeRef, decisionsRef>>
    /\ LET result == nodeToFinalHtmlOn(heap, treeRef, decisionsRef)
       IN  /\ heap' = result.heap
           /\ finalHtml' = [deps |-> <<treeRef, decisionsRef>>, html |-> result.html]
    /\ UNCHANGED <<parser, original, modified, decisions, viewVars, previewVars,
                   renderVars, appVars, treeARef, treeBRef, treeRef, decisionsRef>>

\* the props a render gives anew while the objects are followed: a list
HeapExamples(rev) ==
    IF rev = "nested"
    THEN {Elem("body", <<Elem("ul", <<Li(<<"a">>),
                                      Elem("li", <<Elem("ul", <<Li(<<"b">>)>>)>>)>>)>>)}
    ELSE {Elem("body", <<Elem("ul", <<Li(<<"a">>)>>)>>)}

\* the inputs the objects are followed on, under either revision of parse.ts:
\* two documents of at most MaxElements top-level elements together; the heap
\* holds the empty map of useState({}) and the render of the mount is to run
InitHeap ==
    /\ \/ parser = "text" /\ original \in Docs /\ modified \in Docs
       \/ parser = "nested" /\ original \in NestedExamples /\ modified \in NestedExamples
    /\ Len(original.kids) + Len(modified.kids) <= MaxElements
    /\ Reviewable(parser, original, modified)
    /\ tree # NullTree
    /\ Mounted
    /\ AppIdle
    /\ heap = <<MapObject(EmptyDecisions)>>
    /\ treeARef = 0
    /\ treeBRef = 0
    /\ treeRef = 0
    /\ decisionsRef = 1
    /\ finalHtml = NoFinalHtml

\* WysiwygDiff with its objects: the steps of a render, and between two
\* renders every event of the view
NextHeap ==
    \/ parseInputs
    \/ diffParsedTrees
    \/ resolveTree
    \/ \E d \in HeapExamples(parser) : Reviewable(parser, d, modified) /\ SetOriginal(d)
    \/ \E d \in HeapExamples(parser) : Reviewable(parser, original, d) /\ SetModified(d)
    \/ \E o \in HeapExamples(parser), m \in HeapExamples(parser) :
          Reviewable(parser, o, m) /\ SetProps(o, m)
    \/ ResetEffect
    \/ \E id \in Range(reviewIds) : onAcceptClick(id)
    \/ \E id \in Range(reviewIds) : onRejectClick(id)
    \/ \E mode \in {"accept", "reject"} : handleBulk(mode)
    \/ handleReset
    \/ \E mode \in {"review", "preview"} : setPanelMode(mode)
    \/ \E idx \in 0..(Len(reviewIds) - 1) : setActiveIndex(idx)
    \/ clickNextPending
    \/ \E key \in Keys, editable \in BOOLEAN : handler(key, editable)
    \/ \E html \in PreviewEdits : togglePreviewEditing(html)

SpecHeap == InitHeap /\ [][NextHeap]_vars

\* the addresses of the objects of the tree at ref: nodes, arrays and parts
RECURSIVE Reach(_, _)
Reach(h, ref) ==
    IF ref = 0 THEN {}
    ELSE {ref}
         \cup (IF h[ref].inlineParts = 0 THEN {}
               ELSE {h[ref].inlineParts} \cup Range(h[h[ref].inlineParts].items))
         \cup (IF h[ref].children = 0 THEN {} ELSE {h[ref].children})
         \cup UNION {Reach(h, ChildrenAt(h, ref)[k]) : k \in 1..Len(ChildrenAt(h, ref))}

\* the tree at ref as a value
RECURSIVE Deref(_, _)
Deref(h, ref) ==
    [type |-> h[ref].type, tag |-> h[ref].tag, id |-> h[ref].id,
     status |-> h[ref].status, inlineParts |-> PartsAt(h, ref),
     children |-> [k \in 1..Len(ChildrenAt(h, ref)) |-> Deref(h, ChildrenAt(h, ref)[k])]]

\* the objects hold what diffHtmlTrees and nodeToFinalHtml return
HeapFollowsCalls ==
    /\ heap # <<>> => heap[decisionsRef].entries = decisions
    /\ treeARef # 0 => Deref(heap, treeARef) = treeA /\ Deref(heap, treeBRef) = treeB
    /\ treeRef # 0 => Deref(heap, treeRef) = tree
    /\ (treeRef # 0 /\ finalHtml.deps = <<treeRef, decisionsRef>>)
       => finalHtml.html = baseFinalHtml

\* C15: the differ changes no object of the two parsed trees and every
\* object of the tree it returns (node, array of children, array of parts,
\* part) is one it created in that call; the resolver changes no object of
\* the tree and leaves the decision map, and the caller's reference to it, as
\* they were
C15_FreshResult ==
    [][/\ (treeRef = 0 /\ treeRef' # 0)
          => /\ \A x \in Reach(heap, treeARef) \cup Reach(heap, treeBRef) :
                   heap'[x] = heap[x]
             /\ Reach(heap', treeRef') \cap (1..Len(heap)) = {}
       /\ finalHtml' # finalHtml
          => /\ treeRef' = treeRef
             /\ decisionsRef' = decisionsRef
             /\ decisions' = decisions
             /\ \A x \in Reach(heap, treeRef) \cup {decisionsRef} : heap'[x] = heap[x]]_heapVars

\* the differ has marked a subtree one side has alone and diffed two aligned
\* lists, a decision was taken, and the resolver has run on that map; the
\* objects hold the tree and the html the two calls return
C15_Witness ==
    /\ treeRef # 0
    /\ Len(treeA.children) # Len(treeB.children)
    /\ AlignedLists # {}
    /\ \E id \in DOMAIN decisions : decisions[id] = "accept"
    /\ finalHtml.deps = <<treeRef, decisionsRef>>
    /\ HeapFollowsCalls

\* the ids of the nodes of one kind ("li" or "block"), in document order
IdsOfKind(root, kind) ==
    LET nodes == SelectSeq(NodesOf(root), LAMBDA node : node.type = kind)
    IN  [k \in 1..Len(nodes) |-> nodes[k].id]

\* C16: in a parsed tree the blocks carry block-0, block-1, ... and the list
\* items li-0, li-1, ..., each kind counted in document order over the whole
\* document
C16_CountedIds ==
    treeA # NullTree =>
      /\ \A k \in 1..Len(IdsOfKind(treeA, "block")) :
            IdsOfKind(treeA, "block")[k] = BlockId(k - 1)
      /\ \A k \in 1..Len(IdsOfKind(treeA, "li")) :
            IdsOfKind(treeA, "li")[k] = LiId(k - 1)

\* the p/h1-h6 elements the walk of collectNodes reaches, in document order:
\* it does not look inside a block element, looks inside a list only in the
\* revision that parses the items' children, and looks inside anything else
RECURSIVE Reached(_, _)
Reached(rev, els) ==
    IF els = <<>> THEN <<>>
    ELSE LET el == Head(els)
             here ==
               IF isBlockTag(el.tag) THEN <<el>>
               ELSE IF el.tag \in {"ul", "ol"}
               THEN (IF rev = "nested"
                     THEN Reached(rev, Concat([k \in 1..Len(LiElements(ElementChildren(el))) |->
                                  ElementChildren(LiElements(ElementChildren(el))[k])]))
                     ELSE <<>>)
               ELSE Reached(rev, ElementChildren(el))
         IN  here \o Reached(rev, Tail(els))

\* what collectNodes gives for a parent that holds the element el alone
CollectedFor(rev, el) == Collected(rev, Elem("body", <<el>>))

\* C17: every p/h1-h6 element the walk reaches gives exactly one block with
\* the element's tag, status unchanged and one unflagged part holding the
\* element's inner markup as it stands, and no node for what is inside it
C17_BlockVerbatim ==
    \A el \in Range(Reached(parser, ElementChildren(original))) :
       CollectedFor(parser, el)
         = <<BlockNode(el.tag, BlockId(0), "unchanged",
                       <<Part(InnerHTML(el), FALSE, FALSE)>>)>>

\* the child nodes of an li without the lists and blocks nested in it
RECURSIVE WithoutListsAndBlocks(_)
WithoutListsAndBlocks(kids) ==
    IF kids = <<>> THEN <<>>
    ELSE IF Head(kids).tag \in {"ul", "ol"} \/ isBlockTag(Head(kids).tag)
    THEN WithoutListsAndBlocks(Tail(kids))
    ELSE IF IsCharacterData(Head(kids))
    THEN <<Head(kids)>> \o WithoutListsAndBlocks(Tail(kids))
    ELSE <<[Head(kids) EXCEPT !.kids = WithoutListsAndBlocks(Head(kids).kids)]>>
         \o WithoutListsAndBlocks(Tail(kids))

\* the top content of an li: its own markup, nested lists and blocks removed
TopContent(li) == Trim(InnerHTML(Elem("li", WithoutListsAndBlocks(li.kids))))

\* a node without the ids in it
RECURSIVE EraseIds(_)
EraseIds(node) ==
    [node EXCEPT !.id = NoId,
                 !.children = [k \in 1..Len(node.children) |-> EraseIds(node.children[k])]]

\* the lists and blocks nested in an li, as nodes
NestedOf(li) ==
    [k \in 1..Len(collectNodesNested(li)) |-> EraseIds(collectNodesNested(li)[k])]

\* the li elements of a list that have top content or nested nodes
KeptLis(el) ==
    SelectSeq(LiElements(ElementChildren(el)),
              LAMBDA li : TopContent(li) # <<>> \/ NestedOf(li) # <<>>)

\* C18: a ul/ol element gives one list of its kind whose items are its direct
\* li children in document order, without those whose top content and nested
\* nodes are both empty; an item's content is the li's own markup without the
\* lists and blocks nested in it, and those are the item's children
C18_ListItems ==
    \A i \in 1..Len(ElementChildren(original)) :
       LET el == ElementChildren(original)[i]
           out == CollectedFor(parser, el)
       IN  el.tag \in {"ul", "ol"} =>
             /\ Len(out) = 1
             /\ out[1].type = el.tag
             /\ Len(out[1].children) = Len(KeptLis(el))
             /\ \A k \in 1..Len(KeptLis(el)) :
                   LET item == out[1].children[k]
                   IN  /\ item.type = "li"
                       /\ item.status = "unchanged"
                       /\ getNodeText(item) = TopContent(KeptLis(el)[k])
                       /\ \A j \in 1..Len(item.inlineParts) :
                             ~item.inlineParts[j].added /\ ~item.inlineParts[j].removed
                       /\ [j \in 1..Len(item.children) |-> EraseIds(item.children[j])]
                            = NestedOf(KeptLis(el)[k])

\* one paragraph block, unchanged, with one unflagged part
IsFallbackParagraph(nodes) ==
    /\ Len(nodes) = 1
    /\ nodes[1].type = "block"
    /\ nodes[1].tag = "p"
    /\ nodes[1].status = "unchanged"
    /\ Len(nodes[1].inlineParts) = 1
    /\ ~nodes[1].inlineParts[1].added /\ ~nodes[1].inlineParts[1].removed

\* the nodes of the whole document are those of its top-level elements, in
\* document order
InDocumentOrder ==
    [k \in 1..Len(Collected(parser, original)) |-> EraseIds(Collected(parser, original)[k])]
      = Concat([i \in 1..Len(ElementChildren(original)) |->
                  [k \in 1..Len(CollectedFor(parser, ElementChildren(original)[i])) |->
                      EraseIds(CollectedFor(parser, ElementChildren(original)[i])[k])]])

\* an element that is neither a block, nor a list, nor a container gives the
\* nodes collected from its children
OtherTagsTransparent ==
    \A i \in 1..Len(ElementChildren(original)) :
       LET el == ElementChildren(original)[i]
       IN  el.tag \notin {"p", "h1", "h2", "h3", "h4", "h5", "h6", "ul", "ol",
                          "div", "section", "article"}
           => CollectedFor(parser, el) = Collected(parser, el)

\* C19: a container gives the nodes collected from its children when there
\* are any, and otherwise one paragraph block built from its whole inner
\* content; any other unrecognised element gives the nodes collected from
\* its children; all in document order
C19_Containers ==
    /\ \A i \in 1..Len(ElementChildren(original)) :
          LET el == ElementChildren(original)[i]
          IN  el.tag \in {"div", "section", "article"}
              => IF Collected(parser, el) # <<>>
                 THEN CollectedFor(parser, el) = Collected(parser, el)
                 ELSE /\ IsFallbackParagraph(CollectedFor(parser, el))
                      /\ getNodeText(CollectedFor(parser, el)[1]) = InnerHTML(el)
    /\ OtherTagsTransparent
    /\ InDocumentOrder


\* what one block contributes to the merged text under the decisions
Emitted(block, dec) ==
    LET accepted == block.id \in DOMAIN dec /\ dec[block.id] = TRUE IN
    CASE block.kind = "text" -> block.text
      [] block.kind = "change" /\ block.type = "replace" ->
             IF accepted THEN block.modified ELSE block.original
      [] block.kind = "change" /\ block.type = "remove" ->
             IF accepted THEN <<>> ELSE block.original
      [] block.kind = "change" /\ block.type = "add" ->
             IF accepted THEN block.modified ELSE <<>>

RECURSIVE EmittedInOrder(_, _)
EmittedInOrder(bs, dec) ==
    IF bs = <<>> THEN <<>>
    ELSE Emitted(Head(bs), dec) \o EmittedInOrder(Tail(bs), dec)

\* C20: the merged text is the concatenation, in block order, of what each
\* block emits: a text block its text; an accepted add or replace the modified
\* text and an accepted remove nothing; a rejected or undecided replace or
\* remove the original text and a rejected or undecided add nothing.
C20_MergedText ==
    parser = "plain" => mergedText = EmittedInOrder(blocks, decisions)

\* a text block between an accepted remove and a rejected add, next to states
\* of the same inputs where the two changes are undecided
C20_Witness ==
    /\ parser = "plain"
    /\ \E i, j, k \in 1..Len(blocks) :
          /\ blocks[i].kind = "text"
          /\ blocks[j].kind = "change" /\ blocks[j].type = "remove"
          /\ blocks[j].id \in DOMAIN decisions /\ decisions[blocks[j].id] = TRUE
          /\ blocks[k].kind = "change" /\ blocks[k].type = "add"
          /\ blocks[k].id \in DOMAIN decisions /\ decisions[blocks[k].id] = FALSE
    /\ mergedText # original
    /\ mergedText # modified

\* C21: in the review views, after any accept, reject, toggle, bulk and reset
\* actions, total is the number of interactive nodes, total = accepted +
\* rejected + pending with none of the four negative, pending counts the
\* nodes without a decision, and the 'Review complete' banner is shown
\* exactly when total > 0 and pending = 0
C21_Counters ==
    /\ stats.total = Len(reviewIds)
    /\ stats.total = stats.accepted + stats.rejected + stats.pending
    /\ stats.total >= 0 /\ stats.accepted >= 0 /\ stats.rejected >= 0 /\ stats.pending >= 0
    /\ stats.pending =
         Cardinality({i \in 1..Len(reviewIds) : Undecided(parser, decisions, reviewIds[i])})
    /\ panelMode = "review" => (bannerShown <=> (stats.total > 0 /\ stats.pending = 0))

\* a review with an accepted and a rejected node and nothing pending shows
\* the banner
C21_Witness ==
    /\ parser = "text"
    /\ stats.accepted > 0
    /\ stats.rejected > 0
    /\ stats.pending = 0
    /\ bannerShown

\* a tree read with every li and block on its original side
RECURSIVE OriginalReading(_)
OriginalReading(node) ==
    IF node.type \in {"li", "block"}
    THEN OpenTag(TagOfNode(node)) \o Keeping(node.inlineParts, "added")
         \o Concat([k \in 1..Len(node.children) |-> OriginalReading(node.children[k])])
         \o CloseTag(TagOfNode(node))
    ELSE IF node.type \in {"ul", "ol"}
    THEN OpenTag(node.type)
         \o Concat([k \in 1..Len(node.children) |-> OriginalReading(node.children[k])])
         \o CloseTag(node.type)
    ELSE Concat([k \in 1..Len(node.children) |-> OriginalReading(node.children[k])])

\* a step that leaves the two inputs of the view alone, as every handler of
\* the view does
SameInputs == original' = original /\ modified' = modified

\* C22: in WysiwygDiff, after Accept all (Reject all) the decision map holds
\* exactly the interactive ids, each mapped to accept (reject), and nothing
\* is pending; after Reset the map is empty, everything is pending and the
\* merged output is the original reading
C22_BulkAndReset ==
    [][SameInputs =>
       /\ \A mode \in {"accept", "reject"} :
             handleBulk(mode)
             => /\ DOMAIN decisions' = Range(interactiveIds(tree))
                /\ \A id \in DOMAIN decisions' : decisions'[id] = mode
                /\ statsOf(parser, interactiveIds(tree), decisions').pending = 0
       /\ handleReset
          => /\ decisions' = EmptyDecisions
             /\ statsOf(parser, interactiveIds(tree), decisions').pending
                  = Len(interactiveIds(tree))
             /\ nodeToFinalHtml(tree, decisions') = OriginalReading(tree)]_vars

\* every one of several interactive nodes is accepted and a node that is
\* not interactive has no entry
C22_Witness ==
    /\ tree # NullTree
    /\ Len(interactiveIds(tree)) >= 2
    /\ DOMAIN decisions = Range(interactiveIds(tree))
    /\ \A id \in DOMAIN decisions : decisions[id] = "accept"
    /\ \E node \in Range(NodesOf(tree)) : node.id \notin DOMAIN decisions

\* C23: the render of WysiwygDiff that follows a change of original or of
\* modified never resolves the new tree with decisions recorded against the
\* tree before: the merged html it computes is the one of an empty decision
\* map
C23_NoStaleDecisions ==
    (resetPending /\ ~renderError) => baseFinalHtml = nodeToFinalHtml(tree, EmptyDecisions)

\* C25: no render of a mounted WysiwygDiff ends in a render error, whether
\* diffHtmlTrees gives a tree or null for the inputs
C25_NoRenderError == ~renderError

\* C24: a decision set on one li or block of the tree changes the resolved
\* output of that node only: whatever the decisions are, and whichever
\* changed node a click decides, every other li and block is emitted as
\* before
C24_OneNodeOnly ==
    tree # NullTree =>
      \A i, j \in 1..Len(NodesOf(tree)) :
         \A value \in {"accept", "reject", "undefined"} :
            (i # j /\ interactiveIds(NodesOf(tree)[i]) # <<>>)
            => nodeToFinalHtml(NodesOf(tree)[j],
                               setDecision(decisions, NodesOf(tree)[i].id, value))
                 = nodeToFinalHtml(NodesOf(tree)[j], decisions)

\* C26: buildMergedText over buildDiffBlocks(original, modified) is the
\* concatenation of the parts of the word diff that are not removed when
\* every change is accepted, and the concatenation of the parts that are not
\* added when no change is accepted (the map is empty or rejects them)
C26_Readings ==
    /\ (\A k \in 1..Len(changes) :
           changes[k].id \in DOMAIN decisions /\ decisions[changes[k].id])
       => mergedText = Keeping(diffWords(original, modified), "removed")
    /\ (\A k \in 1..Len(changes) :
           changes[k].id \in DOMAIN decisions => ~decisions[changes[k].id])
       => mergedText = Keeping(diffWords(original, modified), "added")
    /\ buildMergedText(blocks, EmptyDecisions)
         = Keeping(diffWords(original, modified), "added")

\* every one of two changes around an unchanged text is accepted, and the
\* two readings differ
C26_Witness ==
    /\ Len(changes) >= 2
    /\ Len(blocks) > Len(changes)
    /\ \A k \in 1..Len(changes) :
          changes[k].id \in DOMAIN decisions /\ decisions[changes[k].id]
    /\ mergedText # buildMergedText(blocks, EmptyDecisions)

\* the entries of the decision map other than the one of id are as before
OthersKept(id) ==
    /\ DOMAIN decisions' \ {id} = DOMAIN decisions \ {id}
    /\ \A other \in DOMAIN decisions \ {id} : decisions'[other] = decisions[other]

\* C27: in WysiwygDiff a click on Accept makes an accepted node undecided
\* and an undecided or rejected node accepted, a click on Reject does the
\* same with reject, and either click leaves every other entry of the
\* decision map as it was
C27_ClickToggles ==
    [][SameInputs =>
       \A id \in Range(interactiveIds(tree)) :
          /\ onAcceptClick(id)
             => /\ DecisionOf(decisions', id)
                     = (IF DecisionOf(decisions, id) = "accept" THEN "undefined" ELSE "accept")
                /\ OthersKept(id)
          /\ onRejectClick(id)
             => /\ DecisionOf(decisions', id)
                     = (IF DecisionOf(decisions, id) = "reject" THEN "undefined" ELSE "reject")
                /\ OthersKept(id)]_vars

\* a node whose decision a second click took back, beside a rejected node
C27_Witness ==
    /\ \E id \in DOMAIN decisions : decisions[id] = "undefined"
    /\ \E id \in DOMAIN decisions : decisions[id] = "reject"

\* activeIndex is null or the index of an interactive node
IndexInRange == activeIndex = NullIndex \/ activeIndex \in 0..(Len(reviewIds) - 1)

\* a key of the review: WysiwygDiff in review mode with nodes under review
\* takes key from a target that is not editable, and activeIndex is idx
Pressed(key, idx) ==
    /\ handler(key, FALSE)
    /\ panelMode = "review"
    /\ Len(reviewIds) > 0
    /\ activeIndex = idx

\* C28: in WysiwygDiff activeIndex is, in every render of the mounted view,
\* null or an index in [0, number of interactive nodes); J goes from the
\* last index and from null to 0, K from index 0 and from null to the last
\* index, and the keys A and R change a decision only in review mode with an
\* activeIndex that is not null
C28_ActiveIndex ==
    /\ ~renderError => IndexInRange
    /\ \A idx \in {NullIndex, Len(reviewIds) - 1} :
          ~ENABLED (Pressed("j", idx) /\ activeIndex' # 0)
    /\ \A idx \in {NullIndex, 0} :
          ~ENABLED (Pressed("k", idx) /\ activeIndex' # Len(reviewIds) - 1)
    /\ \A key \in {"a", "r"}, editable \in BOOLEAN :
          ~ENABLED (/\ handler(key, editable)
                    /\ decisions' # decisions
                    /\ ~(panelMode = "review" /\ activeIndex # NullIndex))

\* the index jumpToNextPending starts from: activeIndex ?? -1
JumpStart == IF activeIndex = NullIndex THEN -1 ELSE activeIndex

\* node idx (from 0) of the list under review has no decision
PendingAt(idx) == Undecided(parser, decisions, reviewIds[idx + 1])

\* C29: in both views jumpToNextPending leaves activeIndex alone when no
\* node is pending, and otherwise sets it to the first node without a
\* decision met when going round the list from the node after the current
\* one (from node 0 when activeIndex is null); the node it selects is never
\* an accepted or rejected one
C29_NextPending ==
    Settled =>
      LET n == Len(reviewIds)
          target == jumpToNextPending(parser, reviewIds, decisions, activeIndex)
      IN  IF \A idx \in 0..(n - 1) : ~PendingAt(idx)
          THEN target = activeIndex
          ELSE /\ target \in 0..(n - 1)
               /\ PendingAt(target)
               /\ \E offset \in 1..n :
                     /\ target = (JumpStart + offset) % n
                     /\ \A before \in 1..(offset - 1) :
                           ~PendingAt((JumpStart + before) % n)

\* the last of several nodes is active, the first is decided and the second
\* is not: the jump goes round to the second
C29_Witness ==
    /\ Settled
    /\ Len(reviewIds) >= 3
    /\ activeIndex = Len(reviewIds) - 1
    /\ ~PendingAt(0)
    /\ PendingAt(1)
    /\ jumpToNextPending(parser, reviewIds, decisions, activeIndex) = 1

\* C30: a call of handleGenerateAiDraft in flight and aiGenerating go
\* together, and there is never more than one call in flight; the call starts
\* only when aiGenerating is false and makes it true; aiGenerating becomes
\* false only when the call returns; a call that fails before res.json()
\* sets aiError, and any call that sets aiError leaves aiDraftText as it was;
\* and aiGenerating, once true, eventually becomes false.
RequestStarted == Len(request') > Len(request)
RequestReturned == Len(request') < Len(request)
C30_AiDraft ==
    /\ [](Len(request) <= 1 /\ (aiGenerating <=> request # <<>>))
    /\ [][/\ RequestStarted => (~aiGenerating /\ aiGenerating' /\ aiError' = NullError)
          /\ (aiGenerating /\ ~aiGenerating') => RequestReturned
          /\ RequestReturned =>
                /\ ~aiGenerating'
                /\ request[1].at # "json" => aiError' # NullError
                /\ aiError' # NullError => aiDraftText' = aiDraftText
                /\ aiError' = NullError => request[1].at = "json"]_aiVars
    /\ (aiGenerating ~> ~aiGenerating)

====
